---- MODULE Spec2Model ----
(***************************************************************************)
(* Model of the multi-tenant search routing gateway:                       *)
(*   SearchRouter (handleSearch / handleSuggest / generateCacheKey /        *)
(*   executeHybridSearch / getPartialResults), CacheService (L1 LRU + L2),  *)
(*   QueryClassifier, TenantService, the two engine adapters' query         *)
(*   builders, and HealthService.checkCache.                                *)
(*                                                                         *)
(* Text is modelled at character level: a string is a tuple of one-letter  *)
(* strings, so that concatenation, JSON.stringify and the digest are       *)
(* computed and not assumed.                                               *)
(***************************************************************************)
EXTENDS Integers, Sequences, FiniteSets, TLC

(***************************************************************************)
(* String literals of the source.                                          *)
(***************************************************************************)
(* Literals of SearchRouter: body fields, key prefixes, exact-match filter *)
(* fields, JSON keywords, engine names and the text of the deadline error. *)
RouterText ==
  [ searchPrefix |-> <<"s","e","a","r","c","h",":">>,
    suggestPrefix |-> <<"s","u","g","g","e","s","t",":">>,
    tenantId |-> <<"t","e","n","a","n","t","_","i","d">>,
    q |-> <<"q">>,
    filters |-> <<"f","i","l","t","e","r","s">>,
    sort |-> <<"s","o","r","t">>,
    select |-> <<"s","e","l","e","c","t">>,
    page |-> <<"p","a","g","e">>,
    options |-> <<"o","p","t","i","o","n","s">>,
    size |-> <<"s","i","z","e">>,
    timeoutMs |-> <<"t","i","m","e","o","u","t","_","m","s">>,
    strict |-> <<"s","t","r","i","c","t">>,
    limit |-> <<"l","i","m","i","t">>,
    entity |-> <<"e","n","t","i","t","y">>,
    status |-> <<"s","t","a","t","u","s">>,
    region |-> <<"f","a","c","e","t","s",".","r","e","g","i","o","n">>,
    category |-> <<"f","a","c","e","t","s",".","c","a","t","e","g","o","r","y">>,
    null |-> <<"n","u","l","l">>,
    true |-> <<"t","r","u","e">>,
    false |-> <<"f","a","l","s","e">>,
    timeout |-> <<"t","i","m","e","o","u","t">>,
    queryTimeoutAfter |-> <<"Q","u","e","r","y"," ","t","i","m","e","o","u","t"," ","a","f","t","e","r"," ">>,
    msOn |-> <<"m","s"," ","o","n"," ">>,
    engineSuffix |-> <<" ","e","n","g","i","n","e">>,
    simple |-> <<"s","i","m","p","l","e">>,
    complex |-> <<"c","o","m","p","l","e","x">>,
    hybrid |-> <<"h","y","b","r","i","d">> ]

(* Literals of SimpleSearchEngine: range operators, facet fields, the     *)
(* cursor field, and the message of a refused connection.                 *)
SimpleEngineText ==
  [ gte |-> <<"g","t","e">>,
    lte |-> <<"l","t","e">>,
    gt |-> <<"g","t">>,
    lt |-> <<"l","t">>,
    prefix |-> <<"p","r","e","f","i","x">>,
    tags |-> <<"t","a","g","s">>,
    facetsDot |-> <<"f","a","c","e","t","s",".">>,
    cursor |-> <<"c","u","r","s","o","r">>,
    connRefused |-> <<"c","o","n","n","e","c","t"," ","E","C","O","N","N","R","E","F","U","S","E","D">> ]

(* Literals of ComplexSearchEngine: the cursor field, the error type of a *)
(* server-side timeout, and the message of a JSON syntax error.           *)
ComplexEngineText ==
  [ from |-> <<"f","r","o","m">>,
    timeoutException |-> <<"t","i","m","e","o","u","t","_","e","x","c","e","p","t","i","o","n">>,
    unexpectedToken |-> <<"U","n","e","x","p","e","c","t","e","d"," ","t","o","k","e","n">> ]

(* Literals of QueryClassifier: options and field names it inspects. *)
ClassifierText ==
  [ highlight |-> <<"h","i","g","h","l","i","g","h","t">>,
    suggest |-> <<"s","u","g","g","e","s","t">>,
    date |-> <<"d","a","t","e">>,
    field |-> <<"f","i","e","l","d">>,
    title |-> <<"t","i","t","l","e">>,
    body |-> <<"b","o","d","y">> ]

(* Values sent by the clients of the request inventory. *)
SampleText ==
  [ customer |-> <<"c","u","s","t","o","m","e","r">>,
    active |-> <<"a","c","t","i","v","e">>,
    acme |-> <<"a","c","m","e">>,
    ac |-> <<"a","c">>,
    createdAt |-> <<"d","a","t","e","s",".","c","r","e","a","t","e","d","_","a","t">>,
    dueDate |-> <<"d","u","e","d","a","t","e">>,
    year |-> <<"2","0","2","4">>,
    shortWildcard |-> <<"a","c","*">>,
    longWildcard |-> <<"a","c","m","e"," ","c","u","s","t","o","m","*">>,
    fuzzy |-> <<"a","c","m","e","~">>,
    phrase |-> <<"\"","a","c","\"">>,
    sixWords |-> <<"a"," ","b"," ","c"," ","d"," ","e"," ","f">> ]

(***************************************************************************)
(* JSON values (the dynamic request bodies of the source).  An object is an *)
(* ordered sequence of <<key, value>> pairs: JavaScript keeps the          *)
(* insertion order of string keys.                                         *)
(***************************************************************************)
Undef == [t |-> "undef"]
Null == [t |-> "null"]
Str(s) == [t |-> "str", s |-> s]
Num(n) == [t |-> "num", n |-> n]
Bool(b) == [t |-> "bool", b |-> b]
Arr(a) == [t |-> "arr", a |-> a]
Obj(o) == [t |-> "obj", o |-> o]

IsObj(v) == v.t = "obj"
IsArr(v) == v.t = "arr"

(* JavaScript truthiness of a value. *)
Truthy(v) ==
  CASE v.t = "undef" -> FALSE
    [] v.t = "null" -> FALSE
    [] v.t = "str" -> Len(v.s) > 0
    [] v.t = "num" -> v.n # 0
    [] v.t = "bool" -> v.b
    [] OTHER -> TRUE

(* typeof v === 'object' (true of null, arrays and objects). *)
TypeofObject(v) == v.t \in {"null", "arr", "obj"}

(* Object.keys / Object.values / property read / 'k' in o. *)
Keys(v) == IF IsObj(v) THEN [i \in 1..Len(v.o) |-> v.o[i][1]] ELSE <<>>
Values(v) == IF IsObj(v) THEN [i \in 1..Len(v.o) |-> v.o[i][2]] ELSE <<>>
HasKey(v, k) == IsObj(v) /\ \E i \in 1..Len(v.o) : v.o[i][1] = k
Get(v, k) ==
  IF HasKey(v, k)
  THEN v.o[CHOOSE i \in 1..Len(v.o) : v.o[i][1] = k][2]
  ELSE Undef

(* a || b *)
OrElse(a, b) == IF Truthy(a) THEN a ELSE b

(* { ...o, k: val }: an existing key keeps its place and takes the new value. *)
Assign(o, k, val) ==
  IF \E i \in 1..Len(o) : o[i][1] = k
  THEN [i \in 1..Len(o) |-> IF o[i][1] = k THEN <<k, val>> ELSE o[i]]
  ELSE Append(o, <<k, val>>)

RECURSIVE SpreadInto(_, _)
SpreadInto(base, more) ==
  IF more = <<>> THEN base
  ELSE SpreadInto(Assign(base, more[1][1], more[1][2]), Tail(more))

(***************************************************************************)
(* String helpers.                                                         *)
(***************************************************************************)
Alphabet == <<"a","b","c","d","e","f","g","h","i","j","k","l","m","n","o","p","q","r","s","t","u","v","w","x","y","z","0","1","2","3","4","5","6","7","8","9","\"",":",",","{","}","[","]",".","_","-","*"," ","~","\\",
              "A","B","C","D","E","F","G","H","I","J","K","L","M","N","O","P","Q","R","S","T","U","V","W","X","Y","Z","+","/","=">>

Code(c) == CHOOSE i \in 1..Len(Alphabet) : Alphabet[i] = c

Digits == <<"0","1","2","3","4","5","6","7","8","9">>
HexDigits == <<"0","1","2","3","4","5","6","7","8","9","a","b","c","d","e","f">>

(* String.prototype.includes *)
Includes(s, sub) ==
  \E i \in 0..(Len(s) - Len(sub)) :
    \A j \in 1..Len(sub) : s[i + j] = sub[j]

StartsWith(s, pre) ==
  Len(pre) <= Len(s) /\ \A j \in 1..Len(pre) : s[j] = pre[j]

(* String.prototype.trim (the only white space of the alphabet is the blank). *)
RECURSIVE TrimLeft(_)
TrimLeft(s) == IF s # <<>> /\ Head(s) = " " THEN TrimLeft(Tail(s)) ELSE s

RECURSIVE TrimRight(_)
TrimRight(s) ==
  IF s # <<>> /\ s[Len(s)] = " " THEN TrimRight(SubSeq(s, 1, Len(s) - 1)) ELSE s

Trim(s) == TrimRight(TrimLeft(s))

(* s.split(/\s+/).length: one more than the number of maximal blank runs. *)
SplitCount(s) ==
  1 + Cardinality({i \in 1..Len(s) : s[i] = " " /\ (i = 1 \/ s[i - 1] # " ")})

(* Decimal rendering of a natural number. *)
RECURSIVE Decimal(_)
Decimal(n) ==
  IF n < 10 THEN <<Digits[n + 1]>>
  ELSE Decimal(n \div 10) \o <<Digits[(n % 10) + 1]>>

RECURSIVE Concat(_)
Concat(ss) == IF ss = <<>> THEN <<>> ELSE Head(ss) \o Concat(Tail(ss))

(* Array.prototype.join *)
RECURSIVE Join(_, _)
Join(ss, sep) ==
  IF ss = <<>> THEN <<>>
  ELSE IF Len(ss) = 1 THEN ss[1]
  ELSE ss[1] \o sep \o Join(Tail(ss), sep)

(***************************************************************************)
(* JSON.stringify: object keys in insertion order, properties whose value  *)
(* is undefined are left out, an undefined array element is written null.  *)
(***************************************************************************)
RECURSIVE Escape(_)
Escape(s) ==
  IF s = <<>> THEN <<>>
  ELSE (IF Head(s) \in {"\"", "\\"} THEN <<"\\", Head(s)>> ELSE <<Head(s)>>)
       \o Escape(Tail(s))

Quote(s) == <<"\"">> \o Escape(s) \o <<"\"">>

RECURSIVE Stringify(_)
Stringify(v) ==
  CASE v.t = "str" -> Quote(v.s)
    [] v.t = "num" -> Decimal(v.n)
    [] v.t = "bool" -> IF v.b THEN RouterText.true ELSE RouterText.false
    [] v.t = "arr" ->
         <<"[">> \o Join([i \in 1..Len(v.a) |-> Stringify(v.a[i])], <<",">>) \o <<"]">>
    [] v.t = "obj" ->
         LET kept == SelectSeq(v.o, LAMBDA kv : kv[2].t # "undef")
         IN <<"{">>
            \o Join([i \in 1..Len(kept) |->
                      Quote(kept[i][1]) \o <<":">> \o Stringify(kept[i][2])], <<",">>)
            \o <<"}">>
    [] OTHER -> RouterText.null

(***************************************************************************)
(* Buffer.from(text).toString('base64') and                                *)
(* Buffer.from(text, 'base64').toString(): the bytes of a text are the     *)
(* character codes of its characters; three bytes make four base64 digits  *)
(* and '=' pads the last group.  Decoding never throws: characters that    *)
(* are no base64 digits are skipped, and a byte that is no character of    *)
(* the alphabet decodes to the replacement character "?".                  *)
(***************************************************************************)
CharCodes ==
  << 97, 98, 99, 100, 101, 102, 103, 104, 105, 106, 107, 108, 109, 110, 111, 112,
     113, 114, 115, 116, 117, 118, 119, 120, 121, 122,
     48, 49, 50, 51, 52, 53, 54, 55, 56, 57,
     34, 58, 44, 123, 125, 91, 93, 46, 95, 45, 42, 32, 126, 92,
     65, 66, 67, 68, 69, 70, 71, 72, 73, 74, 75, 76, 77, 78, 79, 80,
     81, 82, 83, 84, 85, 86, 87, 88, 89, 90, 43, 47, 61 >>
CharCodeAt(c) == CharCodes[Code(c)]
FromCharCode(n) ==
  IF \E i \in 1..Len(CharCodes) : CharCodes[i] = n
  THEN Alphabet[CHOOSE i \in 1..Len(CharCodes) : CharCodes[i] = n]
  ELSE "?"

Base64Digits ==
  <<"A","B","C","D","E","F","G","H","I","J","K","L","M","N","O","P","Q","R","S","T","U","V","W","X","Y","Z",
    "a","b","c","d","e","f","g","h","i","j","k","l","m","n","o","p","q","r","s","t","u","v","w","x","y","z",
    "0","1","2","3","4","5","6","7","8","9","+","/">>
Base64Value(c) == (CHOOSE i \in 1..Len(Base64Digits) : Base64Digits[i] = c) - 1

RECURSIVE Base64Encode(_)
Base64Encode(text) ==
  IF text = <<>> THEN <<>>
  ELSE
    LET n == IF Len(text) < 3 THEN Len(text) ELSE 3  \* bytes of this group
        b1 == CharCodeAt(text[1])
        b2 == IF n >= 2 THEN CharCodeAt(text[2]) ELSE 0
        b3 == IF n >= 3 THEN CharCodeAt(text[3]) ELSE 0
        v == b1 * 65536 + b2 * 256 + b3
    IN << Base64Digits[(v \div 262144) + 1],
          Base64Digits[((v \div 4096) % 64) + 1],
          IF n >= 2 THEN Base64Digits[((v \div 64) % 64) + 1] ELSE "=",
          IF n >= 3 THEN Base64Digits[(v % 64) + 1] ELSE "=" >>
       \o Base64Encode(SubSeq(text, n + 1, Len(text)))

RECURSIVE Base64DecodeDigits(_)
Base64DecodeDigits(digits) ==
  IF Len(digits) < 2 THEN <<>>
  ELSE
    LET n == IF Len(digits) < 4 THEN Len(digits) ELSE 4
        s1 == Base64Value(digits[1])
        s2 == Base64Value(digits[2])
        s3 == IF n >= 3 THEN Base64Value(digits[3]) ELSE 0
        s4 == IF n >= 4 THEN Base64Value(digits[4]) ELSE 0
        v == s1 * 262144 + s2 * 4096 + s3 * 64 + s4
    IN << FromCharCode(v \div 65536) >>
       \o (IF n >= 3 THEN << FromCharCode((v \div 256) % 256) >> ELSE <<>>)
       \o (IF n >= 4 THEN << FromCharCode(v % 256) >> ELSE <<>>)
       \o Base64DecodeDigits(SubSeq(digits, n + 1, Len(digits)))

Base64Decode(text) ==
  Base64DecodeDigits(SelectSeq(text, LAMBDA c :
                       \E i \in 1..Len(Base64Digits) : Base64Digits[i] = c))

(***************************************************************************)
(* The page cursor.  JSON.parse is modelled on the documents the adapters  *)
(* write into a cursor, { page: n } and { from: n } with n up to           *)
(* MaxCursorValue: it returns the document whose JSON text is the input,   *)
(* and throws on any other text.                                           *)
(***************************************************************************)
MaxCursorValue == 6

CursorDocuments ==
  {Obj(<< <<key, Num(n)>> >>) : key \in {RouterText.page, ComplexEngineText.from}, n \in 0..MaxCursorValue}

JsonParse(text) ==
  IF \E v \in CursorDocuments : Stringify(v) = text
  THEN [ok |-> TRUE, value |-> CHOOSE v \in CursorDocuments : Stringify(v) = text]
  ELSE [ok |-> FALSE, value |-> Undef]

(* Buffer.from(JSON.stringify(doc)).toString('base64') *)
EncodeCursor(doc) == Base64Encode(Stringify(doc))

(* JSON.parse(Buffer.from(cursor, 'base64').toString()) *)
DecodeCursor(cursor) == JsonParse(Base64Decode(cursor))

(***************************************************************************)
(* createHash('md5').update(text).digest('hex'): a fixed-width hex digest   *)
(* of the text.  The model's digest is a polynomial hash of the characters *)
(* modulo a prime below 2^15, written as four hex digits; like MD5 it      *)
(* depends on every character and its position and has a fixed width.      *)
(* The hash of a text is combined from the hashes of its two halves.       *)
(***************************************************************************)
DigestModulus == 32749
DigestBase == 31

RECURSIVE DigestPower(_)
DigestPower(k) == IF k = 0 THEN 1 ELSE (DigestBase * DigestPower(k - 1)) % DigestModulus

RECURSIVE DigestOf(_)
DigestOf(s) ==
  IF Len(s) = 0 THEN 0
  ELSE IF Len(s) = 1 THEN Code(s[1])
  ELSE LET mid == Len(s) \div 2
           left == DigestOf(SubSeq(s, 1, mid))
           right == DigestOf(SubSeq(s, mid + 1, Len(s)))
       IN (left * DigestPower(Len(s) - mid) + right) % DigestModulus

Md5Hex(text) ==
  LET n == DigestOf(text)
  IN << HexDigits[((n \div 4096) % 16) + 1], HexDigits[((n \div 256) % 16) + 1],
        HexDigits[((n \div 16) % 16) + 1], HexDigits[(n % 16) + 1] >>

(***************************************************************************)
(* SearchRouter.generateCacheKey and the key of handleSuggest.             *)
(***************************************************************************)
NormalizedRequest(request) ==
  Obj(<< <<RouterText.q, Get(request, RouterText.q)>>,
         <<RouterText.filters, Get(request, RouterText.filters)>>,
         <<RouterText.sort, Get(request, RouterText.sort)>>,
         <<RouterText.select, Get(request, RouterText.select)>>,
         <<RouterText.page, Get(request, RouterText.page)>> >>)

(* A key built from the request alone, as a generator that forgot the       *)
(* tenant would build it.                                                  *)
generateCacheKeyWithoutTenant(tenantId, request) ==
  RouterText.searchPrefix \o Md5Hex(Stringify(NormalizedRequest(request)))

generateCacheKey(tenantId, request) ==
  RouterText.searchPrefix \o tenantId \o <<":">> \o Md5Hex(Stringify(NormalizedRequest(request)))

suggestCacheKey(tenantId, body) ==
  RouterText.suggestPrefix \o tenantId \o <<":">> \o Md5Hex(Stringify(body))

(* HealthService.checkCache: 'health-check-' + Date.now() *)
healthTestKey(ts) ==
  <<"h","e","a","l","t","h","-","c","h","e","c","k","-">> \o Decimal(ts)

(***************************************************************************)
(* QueryClassifier.  Scores are kept in tenths (0.5 is 5, 0.3 is 3), so     *)
(* Math.round(score * 10) / 10 is the identity on them.                    *)
(***************************************************************************)
Min(a, b) == IF a < b THEN a ELSE b

SIMPLE_THRESHOLD == 30
COMPLEX_THRESHOLD == 70

FiltersOf(request) == OrElse(Get(request, RouterText.filters), Obj(<<>>))

(* request.q && request.q.trim() *)
HasFullText(request) ==
  LET q == Get(request, RouterText.q)
  IN Truthy(q) /\ q.t = "str" /\ Len(Trim(q.s)) > 0

(* request.page?.size || 20 *)
PageSizeOf(request) ==
  LET size == Get(Get(request, RouterText.page), RouterText.size)
  IN IF Truthy(size) THEN size.n ELSE 20

OptionOf(request, name) == Truthy(Get(Get(request, RouterText.options), name))

IsRangeFilter(f) ==
  f.t = "obj" /\ (HasKey(f, SimpleEngineText.gte) \/ HasKey(f, SimpleEngineText.lte) \/ HasKey(f, SimpleEngineText.gt) \/ HasKey(f, SimpleEngineText.lt))

calculateComplexityScore(request) ==
  LET q == Get(request, RouterText.q)
      textScore ==
        IF HasFullText(request)
        THEN Min(SplitCount(q.s) * 5, 30)
             + (IF Includes(q.s, <<"\"">>) THEN 10 ELSE 0)
             + (IF Includes(q.s, <<"*">>) \/ Includes(q.s, <<"~">>) THEN 10 ELSE 0)
        ELSE 0
      filters == FiltersOf(request)
      filterCount == Len(Keys(filters))
      rangeCount == Len(SelectSeq(Values(filters), IsRangeFilter))
      arrayCount == Len(SelectSeq(Values(filters), IsArr))
      sort == Get(request, RouterText.sort)
      \* sort.field.includes(...): of a string a substring test, of an array
      \* a membership test
      fieldIncludes(f, text) ==
        IF f.t = "str" THEN Includes(f.s, text)
        ELSE \E i \in 1..Len(f.a) : f.a[i] = Str(text)
      sortScore ==
        IF Truthy(sort) /\ sort.t = "arr" /\ Len(sort.a) > 0
        THEN Len(sort.a) * 5
             + 10 * Len(SelectSeq(sort.a, LAMBDA e :
                       \/ fieldIncludes(Get(e, ClassifierText.field), ClassifierText.title)
                       \/ fieldIncludes(Get(e, ClassifierText.field), ClassifierText.body)))
        ELSE 0
      select == Get(request, RouterText.select)
  IN textScore
     + Min(filterCount * 5, 20)
     + rangeCount * 10
     + arrayCount * 3
     + sortScore
     + (IF PageSizeOf(request) > 50 THEN 10 ELSE 0)
     + (IF OptionOf(request, ClassifierText.highlight) THEN 10 ELSE 0)
     + (IF OptionOf(request, ClassifierText.suggest) THEN 5 ELSE 0)
     + (IF Truthy(select) /\ select.t = "arr" /\ Len(select.a) > 10 THEN 5 ELSE 0)

requiresComplexEngine(request) ==
  LET q == Get(request, RouterText.q)
      query == IF Truthy(q) THEN Trim(q.s) ELSE <<>>
      filters == FiltersOf(request)
  IN \/ OptionOf(request, ClassifierText.highlight)
     \/ OptionOf(request, ClassifierText.suggest)
     \/ /\ Truthy(q)
        /\ \/ Includes(query, <<"\"">>)
           \/ Includes(query, <<"*">>) /\ Len(query) > 10
           \/ Includes(query, <<"~">>)
           \/ SplitCount(query) > 5
     \/ \E i \in 1..Len(filters.o) :
          Includes(filters.o[i][1], <<".">>) /\ TypeofObject(filters.o[i][2])
     \/ PageSizeOf(request) > 50

(* determineQueryType with the hybrid rule ahead of the feature rule *)
determineQueryTypeHybridFirst(score, request) ==
  LET filterCount == Len(Keys(FiltersOf(request)))
      hasComplexFeatures == OptionOf(request, ClassifierText.highlight) \/ OptionOf(request, ClassifierText.suggest)
  IN IF score <= SIMPLE_THRESHOLD /\ ~HasFullText(request) /\ filterCount <= 2
        /\ ~hasComplexFeatures
     THEN "simple"
     ELSE IF score >= COMPLEX_THRESHOLD THEN "complex"
     ELSE IF HasFullText(request) /\ filterCount > 0 THEN "hybrid"
     ELSE IF requiresComplexEngine(request) THEN "complex"
     ELSE IF score <= 50 THEN "simple"
     ELSE "complex"

determineQueryType(score, request) ==
  LET filterCount == Len(Keys(FiltersOf(request)))
      hasComplexFeatures == OptionOf(request, ClassifierText.highlight) \/ OptionOf(request, ClassifierText.suggest)
  IN IF score <= SIMPLE_THRESHOLD /\ ~HasFullText(request) /\ filterCount <= 2
        /\ ~hasComplexFeatures
     THEN "simple"
     ELSE IF score >= COMPLEX_THRESHOLD THEN "complex"
     ELSE IF requiresComplexEngine(request) THEN "complex"
     ELSE IF HasFullText(request) /\ filterCount > 0 THEN "hybrid"
     ELSE IF score <= 50 THEN "simple"
     ELSE "complex"

isCacheable(request) ==
  LET filters == FiltersOf(request)
      q == Get(request, RouterText.q)
      hasTimeFilter ==
        \E i \in 1..Len(filters.o) :
          Includes(filters.o[i][1], ClassifierText.date) /\ TypeofObject(filters.o[i][2])
      isVerySpecific == Truthy(q) /\ Len(q.s) > 50
      isLargePage == PageSizeOf(request) > 50
  IN ~hasTimeFilter /\ ~isVerySpecific /\ ~isLargePage

(* QueryClassifier.estimateLatency: Math.round(base * (1 + score / 20)), in *)
(* milliseconds; the score is in tenths and the round is to the nearest    *)
(* integer, halves upwards.                                                *)
estimateLatency(type, complexityScore) ==
  LET base == CASE type = "simple" -> 50
                [] type = "complex" -> 200
                [] type = "hybrid" -> 150
                [] OTHER -> 200
  IN (2 * base * (200 + complexityScore) + 200) \div 400

(* Whether classify throws: calculateComplexityScore calls                 *)
(* sort.field.includes on every entry of a non-empty request.sort, which   *)
(* is a TypeError unless the entry has a field that is a string or an      *)
(* array.                                                                  *)
classifyThrows(request) ==
  LET sort == Get(request, RouterText.sort)
  IN /\ Truthy(sort) /\ sort.t = "arr"
     /\ \E i \in 1..Len(sort.a) :
          Get(sort.a[i], ClassifierText.field).t \notin {"str", "arr"}

(* classify, for a request on which it does not throw; the score is kept   *)
(* in tenths.                                                              *)
classify(request) ==
  LET classification(score, type) ==
        [ type |-> type,
          complexityScore |-> score,
          cacheable |-> isCacheable(request),
          estimatedLatency |-> estimateLatency(type, score) ]
      typed(score) == classification(score, determineQueryType(score, request))
  IN typed(calculateComplexityScore(request))

(***************************************************************************)
(* The indexed documents (external to the gateway): id and owning tenant.  *)
(***************************************************************************)
TenantA == <<"a">>
TenantB == <<"a",":","b">>
Tenants == {TenantA, TenantB}

DocOrder == <<"d1", "d2", "d3", "d4", "d5">>
DocTenant(d) == IF d = "d3" THEN TenantB ELSE TenantA

(* The documents an engine may match for a tenant restriction, in its order. *)
InScope(scope) == SelectSeq(DocOrder, LAMBDA d : DocTenant(d) \in scope)

(* What the engine matches is its own business (text relevance, index     *)
(* freshness): all documents the restriction admits, or all but the first. *)
MatchChoices(scope) ==
  LET all == InScope(scope)
  IN {all} \cup (IF all = <<>> THEN {} ELSE {Tail(all)})

FirstN(seq, n) == SubSeq(seq, 1, Min(n, Len(seq)))

(***************************************************************************)
(* SimpleSearchEngine: filter string and response translation.             *)
(* A filter string is kept as its && parts [field, op, val].               *)
(***************************************************************************)
RangePart(field, value, bound, op) ==
  IF Get(value, bound).t # "undef"
  THEN << [field |-> field, op |-> op, val |-> Get(value, bound)] >>
  ELSE <<>>

RECURSIVE buildFilterString(_)
buildFilterString(filters) ==
  IF filters = <<>> THEN <<>>
  ELSE
    LET field == filters[1][1]
        value == filters[1][2]
        parts ==
          IF value.t \in {"undef", "null"} THEN <<>>
          ELSE IF value.t = "arr"
            THEN << [field |-> field, op |-> "in", val |-> value] >>
          ELSE IF value.t = "obj"
            THEN RangePart(field, value, SimpleEngineText.gte, ">=") \o RangePart(field, value, SimpleEngineText.lte, "<=")
                 \o RangePart(field, value, SimpleEngineText.gt, ">") \o RangePart(field, value, SimpleEngineText.lt, "<")
          ELSE << [field |-> field, op |-> "eq", val |-> value] >>
    IN parts \o buildFilterString(Tail(filters))

(* buildTypesenseQuery: filter_by of { tenant_id: request.tenant_id, ...request.filters } *)
SimpleFilterBy(request) ==
  LET filters == Get(request, RouterText.filters)
  IN buildFilterString(
       SpreadInto(<< <<RouterText.tenantId, Get(request, RouterText.tenantId)>> >>,
                  IF IsObj(filters) THEN filters.o ELSE <<>>))

(* Whether a document of tenant t passes one part on the field tenant_id. *)
PartAdmits(part, t) ==
  CASE part.op = "eq" -> part.val = Str(t)
    [] part.op = "in" -> \E i \in 1..Len(part.val.a) : part.val.a[i] = Str(t)
    [] OTHER -> FALSE

(* The tenants whose documents a filter string admits. *)
ScopeOfParts(parts) ==
  {t \in Tenants :
     \A i \in 1..Len(parts) : parts[i].field = RouterText.tenantId => PartAdmits(parts[i], t)}

SimpleSearchScope(request) == ScopeOfParts(SimpleFilterBy(request))

(* filterByIds: `tenant_id:${request.tenant_id} && id:[...]` *)
FilterByIdsScope(request) ==
  ScopeOfParts(<< [field |-> RouterText.tenantId, op |-> "eq", val |-> Get(request, RouterText.tenantId)] >>)

(* suggest: buildFilterString({ tenant_id, ...(entity && { entity }) }) *)
SuggestScope(request) ==
  LET entity == Get(request, RouterText.entity)
  IN ScopeOfParts(buildFilterString(
       << <<RouterText.tenantId, Get(request, RouterText.tenantId)>> >>
       \o (IF Truthy(entity) THEN << <<RouterText.entity, entity>> >> ELSE <<>>)))

(* buildTypesenseQuery: the number of fields of facet_by *)
FacetBy(request) ==
  LET filters == Get(request, RouterText.filters)
  IN IF Truthy(filters) /\ IsObj(filters)
     THEN Cardinality({i \in 1..Len(filters.o) :
            \/ StartsWith(filters.o[i][1], SimpleEngineText.facetsDot)
            \/ filters.o[i][1] \in {RouterText.entity, RouterText.status, SimpleEngineText.tags}})
     ELSE 0

(* transformFacets: undefined when the engine sent no facet counts *)
transformFacets(facet_counts) == IF facet_counts = 0 THEN "undefined" ELSE "object"

transformTypesenseResponse(result, request) ==
  LET hasMore == result.found > result.page * result.per_page
      nextCursor ==
        IF hasMore
        THEN Str(EncodeCursor(Obj(<< <<RouterText.page, Num(result.page + 1)>> >>)))
        ELSE Null
  IN [ hits |-> result.hits,
       total |-> [value |-> result.found, relation |-> "eq"],
       page |-> [size |-> PageSizeOf(request), cursor |-> nextCursor,
                 has_more |-> hasMore],
       facets |-> transformFacets(result.facet_counts),
       performance |-> [engine |-> "simple", cached |-> FALSE, partial |-> FALSE],
       debug |-> <<>>,
       error |-> "none" ]

(* request.page?.cursor *)
CursorOf(request) == Get(Get(request, RouterText.page), SimpleEngineText.cursor)

(* buildTypesenseQuery: page 1, or pageInfo.page || 1 of a cursor that     *)
(* decodes, or 1 when decoding throws.                                     *)
TypesensePage(request) ==
  LET pageOf(pageInfo) ==
        IF pageInfo.ok /\ Truthy(Get(pageInfo.value, RouterText.page))
        THEN Get(pageInfo.value, RouterText.page).n
        ELSE 1
      pageAt(cursor) == IF Truthy(cursor) THEN pageOf(DecodeCursor(cursor.s)) ELSE 1
  IN pageAt(CursorOf(request))

(* The hits of a result list from position first + 1, at most size of them. *)
Window(matched, first, size) ==
  SubSeq(matched, first + 1, Min(first + size, Len(matched)))

(* The engine's answer to search(): per_page = PageSizeOf(request), the    *)
(* page of buildTypesenseQuery, and one facet count per field of facet_by. *)
TypesenseResult(matched, request) ==
  LET result(page, per_page) ==
        [ found |-> Len(matched), page |-> page, per_page |-> per_page,
          hits |-> Window(matched, (page - 1) * per_page, per_page),
          facet_counts |-> FacetBy(request) ]
  IN result(TypesensePage(request), PageSizeOf(request))

(* The engine's answer to filterByIds(): no page and no facet_by are sent. *)
FilterByIdsResult(matched, request) ==
  [ found |-> Len(matched), page |-> 1, per_page |-> PageSizeOf(request),
    hits |-> FirstN(matched, PageSizeOf(request)),
    facet_counts |-> 0 ]

(***************************************************************************)
(* ComplexSearchEngine: bool filter and response translation.              *)
(***************************************************************************)
RECURSIVE buildACLFilters(_)
buildACLFilters(filters) ==
  IF filters = <<>> THEN <<>>
  ELSE
    LET field == filters[1][1]
        value == filters[1][2]
        clause ==
          IF value.t \in {"undef", "null"} THEN <<>>
          ELSE IF value.t = "arr"
            THEN << [field |-> field, op |-> "in", val |-> value] >>
          ELSE IF value.t = "obj"
            THEN (IF IsRangeFilter(value)
                  THEN << [field |-> field, op |-> "range", val |-> value] >>
                  ELSE <<>>)
          ELSE << [field |-> field, op |-> "eq", val |-> value] >>
    IN clause \o buildACLFilters(Tail(filters))

(* buildOpenSearchQuery: filter = [term tenant_id, ...buildACLFilters(request)] *)
ComplexFilter(request) ==
  LET filters == Get(request, RouterText.filters)
  IN << [field |-> RouterText.tenantId, op |-> "eq", val |-> Get(request, RouterText.tenantId)] >>
     \o buildACLFilters(IF IsObj(filters) THEN filters.o ELSE <<>>)

ComplexSearchScope(request) == ScopeOfParts(ComplexFilter(request))

(* buildOpenSearchQuery: from 0, or pageInfo.from || 0 of a cursor that   *)
(* decodes, or 0 when decoding throws.                                     *)
OpenSearchFrom(request) ==
  LET fromOf(pageInfo) ==
        IF pageInfo.ok /\ Truthy(Get(pageInfo.value, ComplexEngineText.from))
        THEN Get(pageInfo.value, ComplexEngineText.from).n
        ELSE 0
      fromAt(cursor) == IF Truthy(cursor) THEN fromOf(DecodeCursor(cursor.s)) ELSE 0
  IN fromAt(CursorOf(request))

(* transformOpenSearchResponse parses the cursor again, outside any try:   *)
(* a cursor that JSON.parse rejects makes search() throw a SyntaxError     *)
(* after the engine has answered.                                          *)
OpenSearchCursorThrows(request) ==
  Truthy(CursorOf(request)) /\ ~DecodeCursor(CursorOf(request).s).ok

(* size: request.page?.size || 20, from: OpenSearchFrom, track_total_hits: *)
(* true, so the engine reports the exact total (relation eq); the          *)
(* aggregations that are always requested come back as facets.             *)
transformOpenSearchResponse(matched, request) ==
  LET total == Len(matched)
      response(currentFrom, pageSize, nextFrom, hasMore) ==
        [ hits |-> Window(matched, currentFrom, pageSize),
          total |-> [value |-> total, relation |-> "eq"],
          page |-> [size |-> pageSize,
                    cursor |->
                      IF hasMore
                      THEN Str(EncodeCursor(Obj(<< <<ComplexEngineText.from,
                                                     Num(nextFrom)>> >>)))
                      ELSE Null,
                    has_more |-> hasMore],
          facets |-> "object",
          performance |-> [engine |-> "complex", cached |-> FALSE, partial |-> FALSE],
          debug |-> <<>>,
          error |-> "none" ]
      window(currentFrom, pageSize) ==
        response(currentFrom, pageSize, currentFrom + pageSize,
                 currentFrom + pageSize < total)
  IN window(OpenSearchFrom(request), PageSizeOf(request))

(***************************************************************************)
(* Bounds of the model.                                                    *)
(***************************************************************************)
L1MaxSize == 1
MaxRequests == 2
MaxCacheKeys == 2

(***************************************************************************)
(* CacheService.  An L1 entry is [key, val, age]; age is                    *)
(*   "set"     written by set(), its TTL running since that set,           *)
(*   "touched" a "set" entry whose age a get has restarted                 *)
(*             (updateAgeOnGet),                                           *)
(*   "filled"  copied from L2 by get(), with the default TTL,              *)
(*   "stale"   past its TTL and not yet removed (allowStale).              *)
(* The L1 sequence is ordered least recently used first.                   *)
(***************************************************************************)
L1Has(cache, key) == \E i \in 1..Len(cache) : cache[i].key = key
L1Entry(cache, key) == cache[CHOOSE i \in 1..Len(cache) : cache[i].key = key]
L1Without(cache, key) == SelectSeq(cache, LAMBDA e : e.key # key)

(* LRUCache.set: replaces the key's entry, evicting the least recently used *)
(* entry when a new key would exceed max.                                  *)
L1Set(cache, key, val, age) ==
  LET rest == L1Without(cache, key)
      room == IF Len(rest) >= L1MaxSize THEN Tail(rest) ELSE rest
  IN Append(room, [key |-> key, val |-> val, age |-> age])

(* LRUCache.get with allowStale and updateAgeOnGet: a stale entry is       *)
(* returned once and deleted; a live entry becomes most recently used and  *)
(* its age restarts.                                                       *)
L1Get(cache, key) ==
  IF ~L1Has(cache, key) THEN [hit |-> FALSE, val |-> Undef, l1 |-> cache]
  ELSE
    LET e == L1Entry(cache, key)
    IN IF e.age = "stale"
       THEN [hit |-> TRUE, val |-> e.val, l1 |-> L1Without(cache, key)]
       ELSE [hit |-> TRUE, val |-> e.val,
             l1 |-> Append(L1Without(cache, key),
                           [e EXCEPT !.age = IF e.age = "set" THEN "touched" ELSE e.age])]

L2Has(store, key) == \E e \in store : e.key = key
L2Entry(store, key) == CHOOSE e \in store : e.key = key
L2Without(store, key) == {e \in store : e.key # key}

(* JSON.parse(JSON.stringify(value)) of a stored value: a property whose   *)
(* value is undefined is dropped.                                          *)
JsonRoundTrip(val) ==
  IF "facets" \in DOMAIN val /\ val.facets = "undefined"
  THEN [val EXCEPT !.facets = "absent"]
  ELSE val

(* What a call of get adds to CacheService.stats. *)
GetStats(l1Hit, l2Read, l2Hit, threw) ==
  [ l1Hits |-> IF l1Hit THEN 1 ELSE 0,
    l1Misses |-> IF l1Hit THEN 0 ELSE 1,
    l2Hits |-> IF l2Read /\ l2Hit THEN 1 ELSE 0,
    l2Misses |-> IF l2Read /\ ~l2Hit /\ ~threw THEN 1 ELSE 0,
    errors |-> IF l2Read /\ threw THEN 1 ELSE 0 ]

(* A get that returns what L2 holds although the read threw. *)
cacheGetThroughFault(cache, store, enabled, key, l2ok) ==
  LET g == L1Get(cache, key)
  IN IF g.hit THEN [hit |-> TRUE, val |-> g.val, l1 |-> g.l1,
                    stats |-> GetStats(TRUE, FALSE, FALSE, FALSE)]
     ELSE IF enabled /\ L2Has(store, key)
       THEN LET parsed == L2Entry(store, key).val
            IN [hit |-> TRUE, val |-> parsed, l1 |-> L1Set(g.l1, key, parsed, "filled"),
                stats |-> GetStats(FALSE, TRUE, TRUE, ~l2ok)]
       ELSE [hit |-> FALSE, val |-> Undef, l1 |-> g.l1,
             stats |-> GetStats(FALSE, enabled, FALSE, ~l2ok)]

(* A get that returns an L2 hit and leaves L1 as it was. *)
cacheGetWithoutFill(cache, store, enabled, key, l2ok) ==
  LET g == L1Get(cache, key)
  IN IF g.hit THEN [hit |-> TRUE, val |-> g.val, l1 |-> g.l1,
                    stats |-> GetStats(TRUE, FALSE, FALSE, FALSE)]
     ELSE IF enabled /\ l2ok /\ L2Has(store, key)
       THEN [hit |-> TRUE, val |-> L2Entry(store, key).val, l1 |-> g.l1,
             stats |-> GetStats(FALSE, TRUE, TRUE, FALSE)]
       ELSE [hit |-> FALSE, val |-> Undef, l1 |-> g.l1,
             stats |-> GetStats(FALSE, enabled, FALSE, ~l2ok)]

(* CacheService.get; l2ok = FALSE is an L2 read that throws.  L1 is asked  *)
(* first and L2 only when L1 has nothing and L2 is enabled; an L2 hit is   *)
(* parsed, set in L1 and returned; an L2 read that throws is counted in    *)
(* stats.errors and the get returns null.                                  *)
cacheGet(cache, store, enabled, key, l2ok) ==
  LET g == L1Get(cache, key)
  IN IF g.hit THEN [hit |-> TRUE, val |-> g.val, l1 |-> g.l1,
                    stats |-> GetStats(TRUE, FALSE, FALSE, FALSE)]
     ELSE IF enabled /\ l2ok /\ L2Has(store, key)
       THEN LET parsed == L2Entry(store, key).val
            IN [hit |-> TRUE, val |-> parsed, l1 |-> L1Set(g.l1, key, parsed, "filled"),
                stats |-> GetStats(FALSE, TRUE, TRUE, FALSE)]
       ELSE [hit |-> FALSE, val |-> Undef, l1 |-> g.l1,
             stats |-> GetStats(FALSE, enabled, FALSE, ~l2ok)]

(* A set whose L2 write is SET NX: L2 keeps the value it holds. *)
cacheSetKeepFirstL2(cache, store, enabled, key, val, l2ok) ==
  [ l1 |-> L1Set(cache, key, val, "set"),
    l2 |-> IF enabled /\ l2ok /\ ~L2Has(store, key)
           THEN store \cup {[key |-> key, val |-> JsonRoundTrip(val)]}
           ELSE store ]

(* CacheService.set; l2ok = FALSE is an L2 write that throws. *)
cacheSet(cache, store, enabled, key, val, l2ok) ==
  [ l1 |-> L1Set(cache, key, val, "set"),
    l2 |-> IF enabled /\ l2ok
           THEN L2Without(store, key) \cup {[key |-> key, val |-> JsonRoundTrip(val)]}
           ELSE store ]

(* CacheService.delete *)
cacheDelete(cache, store, enabled, key, l2ok) ==
  [ l1 |-> L1Without(cache, key),
    l2 |-> IF enabled /\ l2ok THEN L2Without(store, key) ELSE store ]

(***************************************************************************)
(* TenantService and the helpers of SearchRouter.                          *)
(***************************************************************************)
(* extractTenantId(request): throws without a bearer token or tenant header *)
extractTenantId(hasToken, tenantHeader) ==
  IF ~hasToken THEN [ok |-> FALSE, tenantId |-> <<>>]
  ELSE IF tenantHeader = <<>> THEN [ok |-> FALSE, tenantId |-> <<>>]
  ELSE [ok |-> TRUE, tenantId |-> tenantHeader]

(* { ...request.body, tenant_id: tenantId } *)
WithTenant(body, tenantId) == Obj(Assign(body.o, RouterText.tenantId, Str(tenantId)))

(* applyAuthzFilters: { ...request, filters: request.filters || {} } *)
applyAuthzFilters(request) ==
  Obj(Assign(request.o, RouterText.filters, OrElse(Get(request, RouterText.filters), Obj(<<>>))))

(* searchRequest.options?.timeout_ms || 700 *)
TimeoutMsOf(request) ==
  LET t == Get(Get(request, RouterText.options), RouterText.timeoutMs)
  IN IF Truthy(t) THEN t.n ELSE 700

TypeName(type) ==
  CASE type = "simple" -> RouterText.simple
    [] type = "complex" -> RouterText.complex
    [] OTHER -> RouterText.hybrid

(* createTimeoutPromise: the message of the rejection *)
createTimeoutPromise(timeoutMs, engine) ==
  RouterText.queryTimeoutAfter \o Decimal(timeoutMs) \o RouterText.msOn \o TypeName(engine) \o RouterText.engineSuffix

(* The test of the catch as it would read had it looked for 'Timeout'. *)
IsTimeoutErrorCapitalized(message) == Includes(message, <<"T","i","m","e","o","u","t">>)

(* catch of the inner try: error.message.includes('timeout') *)
IsTimeoutError(message) == Includes(message, RouterText.timeout)

(* Messages of the errors an engine client throws. *)
EngineErrorMessages == {SimpleEngineText.connRefused, ComplexEngineText.timeoutException}

shouldUseSimpleEngineFiltering(request) ==
  LET filters == FiltersOf(request)
  IN \E field \in {RouterText.entity, RouterText.status, RouterText.region, RouterText.category} : Truthy(Get(filters, field))

(* executeHybridSearch: { ...request, page: { size: (request.page?.size || 20) * 3 } } *)
HybridComplexRequest(request) ==
  Obj(Assign(request.o, RouterText.page, Obj(<< <<RouterText.size, Num(PageSizeOf(request) * 3)>> >>)))

(* A merge that cuts the complex hits to a page without the filter. *)
mergeHybridResultsUnfiltered(complexResult, simpleResult, pageSize) ==
  LET mergedHits == FirstN(complexResult.hits, pageSize)
  IN [complexResult EXCEPT !.hits = mergedHits,
                           !.total = [value |-> Len(mergedHits), relation |-> "eq"]]

mergeHybridResults(complexResult, simpleResult, pageSize) ==
  LET simpleHits == {simpleResult.hits[i] : i \in 1..Len(simpleResult.hits)}
      mergedHits == FirstN(SelectSeq(complexResult.hits, LAMBDA id : id \in simpleHits),
                           pageSize)
  IN [complexResult EXCEPT !.hits = mergedHits,
                           !.total = [value |-> Len(mergedHits), relation |-> "eq"]]

(* Whether the total of the merge counts fewer documents than passed the   *)
(* filter of filterByIds (found), the merged list being cut to one page.   *)
mergeUndercounts(complexResult, simpleResult, pageSize) ==
  simpleResult.total.value
    > Len(mergeHybridResults(complexResult, simpleResult, pageSize).hits)

(* getPartialResults: the degraded request and the last-resort body *)
FallbackRequest(request) ==
  LET options == Get(request, RouterText.options)
      o1 == Assign(request.o, RouterText.q, Null)
      o2 == Assign(o1, RouterText.page, Obj(<< <<RouterText.size, Num(Min(PageSizeOf(request), 10))>> >>))
      o3 == Assign(o2, RouterText.options,
                   Obj(Assign(IF IsObj(options) THEN options.o ELSE <<>>,
                              RouterText.timeoutMs, Num(200))))
  IN Obj(o3)

EmptyFallback(pageSize) ==
  [ hits |-> <<>>,
    total |-> [value |-> 0, relation |-> "gte"],
    page |-> [size |-> pageSize, cursor |-> Undef, has_more |-> FALSE],
    facets |-> "absent",
    performance |-> [engine |-> "fallback", cached |-> FALSE, partial |-> TRUE],
    debug |-> <<>>,
    error |-> "none" ]

(* result is Null when handleExplain asks *)
calculateCacheTtl(classification, result) ==
  IF classification.type = "simple" THEN 300
  ELSE IF result # Null /\ result.total.value < 100 THEN 600
  ELSE 120

(* handleSearch, after the plan or the fallback: performance and debug are *)
(* assigned on the result object.                                          *)
Assemble(result, classification, cacheKey) ==
  [result EXCEPT
     !.performance = [engine |-> classification.type, cached |-> FALSE,
                      partial |-> result.performance.partial],
     !.debug = <<classification.type, cacheKey>>]

(* A cache hit returned as stored, without cached: true. *)
CachedReplyUnmarked(cachedResult) == cachedResult

(* handleSearch, cache hit: { ...cachedResult, performance: { ..., cached: true } } *)
CachedReply(cachedResult) ==
  [cachedResult EXCEPT !.performance = [cachedResult.performance EXCEPT !.cached = TRUE]]

(* handleSearch, outer catch: the error envelope returned with status 500 *)
ErrorEnvelope(pageSize) ==
  [ hits |-> <<>>,
    total |-> [value |-> 0, relation |-> "eq"],
    page |-> [size |-> pageSize, cursor |-> Undef, has_more |-> FALSE],
    facets |-> "absent",
    performance |-> [engine |-> "error", cached |-> FALSE, partial |-> FALSE],
    debug |-> <<>>,
    error |-> "SEARCH_ERROR" ]

(***************************************************************************)
(* registerRoutes: the body schemas of /search, /suggest and /explain, as  *)
(* the framework's validator applies them before the handler runs: a body  *)
(* that violates the schema is answered 400, and a property missing from   *)
(* an object that is present takes the default of the schema.              *)
(***************************************************************************)
(* property absent, or of one of the listed JSON types *)
TypeIn(v, types) == v.t = "undef" \/ v.t \in types

(* type: 'integer' with minimum and maximum *)
IntegerIn(v, lo, hi) == v.t = "undef" \/ (v.t = "num" /\ v.n >= lo /\ v.n <= hi)

(* useDefaults: the default is appended when the property is missing *)
WithDefault(o, key, val) ==
  IF \E i \in 1..Len(o) : o[i][1] = key /\ o[i][2].t # "undef" THEN o
  ELSE Assign(o, key, val)

SearchSchemaAccepts(body) ==
  LET page == Get(body, RouterText.page)
      options == Get(body, RouterText.options)
  IN /\ IsObj(body)
     /\ TypeIn(Get(body, RouterText.q), {"str", "null"})
     /\ TypeIn(Get(body, RouterText.filters), {"obj"})
     /\ TypeIn(Get(body, RouterText.sort), {"arr"})
     /\ TypeIn(Get(body, RouterText.select), {"arr"})
     /\ TypeIn(page, {"obj"})
     /\ IntegerIn(Get(page, RouterText.size), 1, 100)
     /\ TypeIn(Get(page, SimpleEngineText.cursor), {"str", "null"})
     /\ TypeIn(options, {"obj"})
     /\ TypeIn(Get(options, ClassifierText.highlight), {"bool"})
     /\ TypeIn(Get(options, ClassifierText.suggest), {"bool"})
     /\ IntegerIn(Get(options, RouterText.timeoutMs), 50, 2000)
     /\ TypeIn(Get(options, RouterText.strict), {"bool"})

SearchSchemaDefaults(body) ==
  LET page == Get(body, RouterText.page)
      options == Get(body, RouterText.options)
      b1 == IF IsObj(page)
            THEN Assign(body.o, RouterText.page, Obj(WithDefault(page.o, RouterText.size, Num(20))))
            ELSE body.o
      b2 == IF IsObj(options)
            THEN Assign(b1, RouterText.options,
                   Obj(WithDefault(
                         WithDefault(
                           WithDefault(
                             WithDefault(options.o, ClassifierText.highlight, Bool(FALSE)),
                             ClassifierText.suggest, Bool(FALSE)),
                           RouterText.timeoutMs, Num(700)),
                         RouterText.strict, Bool(FALSE))))
            ELSE b1
  IN Obj(b2)

SuggestSchemaAccepts(body) ==
  LET prefix == Get(body, SimpleEngineText.prefix)
  IN /\ IsObj(body)
     /\ prefix.t = "str" /\ Len(prefix.s) >= 1 /\ Len(prefix.s) <= 50
     /\ TypeIn(Get(body, RouterText.entity), {"arr"})
     /\ IntegerIn(Get(body, RouterText.limit), 1, 20)

SuggestSchemaDefaults(body) == Obj(WithDefault(body.o, RouterText.limit, Num(10)))

ExplainSchemaAccepts(body) ==
  /\ IsObj(body)
  /\ TypeIn(Get(body, RouterText.q), {"str", "null"})
  /\ TypeIn(Get(body, RouterText.filters), {"obj"})
  /\ TypeIn(Get(body, RouterText.sort), {"arr"})

(* The schema of /explain has no default. *)
ExplainSchemaDefaults(body) == body

(* The body of the framework's own replies: 400 of the validator, 500 of   *)
(* an error thrown by a handler outside its try block.                     *)
FrameworkError(statusCode) ==
  [ statusCode |-> statusCode,
    error |-> IF statusCode = 400 THEN "Bad Request" ELSE "Internal Server Error",
    code |-> IF statusCode = 400 THEN "FST_ERR_VALIDATION" ELSE "none" ]

(***************************************************************************)
(* The request bodies the clients send.                                    *)
(***************************************************************************)
Body ==
  LET (* a cursor that is no base64 of a JSON document *)
      badCursor == <<"a","b","c">>
  IN [
    Simple |->
      Obj(<< <<RouterText.filters, Obj(<< <<RouterText.entity, Arr(<<Str(SampleText.customer)>>)>>,
      <<RouterText.status, Arr(<<Str(SampleText.active)>>)>> >>)>>,
      <<RouterText.page, Obj(<< <<RouterText.size, Num(10)>> >>)>> >>),
    (* Body.Simple with the two fields of filters in the other order *)
    SimplePermuted |->
      Obj(<< <<RouterText.filters, Obj(<< <<RouterText.status, Arr(<<Str(SampleText.active)>>)>>,
      <<RouterText.entity, Arr(<<Str(SampleText.customer)>>)>> >>)>>,
      <<RouterText.page, Obj(<< <<RouterText.size, Num(10)>> >>)>> >>),
    Hybrid |->
      Obj(<< <<RouterText.q, Str(SampleText.acme)>>,
      <<RouterText.filters, Obj(<< <<RouterText.entity, Arr(<<Str(SampleText.customer)>>)>> >>)>>,
      <<RouterText.page, Obj(<< <<RouterText.size, Num(1)>> >>)>> >>),
    Complex |->
      Obj(<< <<RouterText.q, Str(SampleText.acme)>>,
      <<RouterText.options, Obj(<< <<ClassifierText.highlight, Bool(TRUE)>> >>)>> >>),
    (* Body.Complex without its options *)
    TextOnly |->
      Obj(<< <<RouterText.q, Str(SampleText.acme)>> >>),
    (* a page too large to be cacheable *)
    LargePage |->
      Obj(<< <<RouterText.page, Obj(<< <<RouterText.size, Num(60)>> >>)>> >>),
    (* a filter on the field tenant_id itself *)
    ForeignTenant |->
      Obj(<< <<RouterText.filters, Obj(<< <<RouterText.tenantId, Str(TenantB)>> >>)>> >>),
    (* pages of two documents on the simple plan, and the page after the first *)
    Paged |->
      Obj(<< <<RouterText.page, Obj(<< <<RouterText.size, Num(2)>> >>)>> >>),
    PagedNext |->
      Obj(<< <<RouterText.page, Obj(<< <<RouterText.size, Num(2)>>,
      <<SimpleEngineText.cursor, Str(EncodeCursor(Obj(<< <<RouterText.page, Num(2)>> >>)))>> >>)>> >>),
    (* the same on the complex plan *)
    ComplexPaged |->
      Obj(<< <<RouterText.q, Str(SampleText.acme)>>,
      <<RouterText.page, Obj(<< <<RouterText.size, Num(2)>> >>)>>,
      <<RouterText.options, Obj(<< <<ClassifierText.highlight, Bool(TRUE)>> >>)>> >>),
    ComplexPagedNext |->
      Obj(<< <<RouterText.q, Str(SampleText.acme)>>,
      <<RouterText.page, Obj(<< <<RouterText.size, Num(2)>>,
      <<SimpleEngineText.cursor, Str(EncodeCursor(Obj(<< <<ComplexEngineText.from, Num(2)>> >>)))>> >>)>>,
      <<RouterText.options, Obj(<< <<ClassifierText.highlight, Bool(TRUE)>> >>)>> >>),
    (* Body.Hybrid with the cursor its first page carries *)
    HybridNext |->
      Obj(<< <<RouterText.q, Str(SampleText.acme)>>,
      <<RouterText.filters, Obj(<< <<RouterText.entity, Arr(<<Str(SampleText.customer)>>)>> >>)>>,
      <<RouterText.page, Obj(<< <<RouterText.size, Num(1)>>,
      <<SimpleEngineText.cursor, Str(EncodeCursor(Obj(<< <<ComplexEngineText.from, Num(3)>> >>)))>> >>)>> >>),
    (* a hybrid query whose only filter is none of the exact-match fields *)
    HybridTags |->
      Obj(<< <<RouterText.q, Str(SampleText.acme)>>,
      <<RouterText.filters, Obj(<< <<SimpleEngineText.tags, Arr(<<Str(SampleText.active)>>)>> >>)>>,
      <<RouterText.page, Obj(<< <<RouterText.size, Num(1)>> >>)>> >>),
    BadCursor |->
      Obj(<< <<RouterText.page, Obj(<< <<RouterText.size, Num(2)>>, <<SimpleEngineText.cursor, Str(badCursor)>> >>)>> >>),
    ComplexBadCursor |->
      Obj(<< <<RouterText.q, Str(SampleText.acme)>>,
      <<RouterText.page, Obj(<< <<RouterText.size, Num(2)>>, <<SimpleEngineText.cursor, Str(badCursor)>> >>)>>,
      <<RouterText.options, Obj(<< <<ClassifierText.highlight, Bool(TRUE)>> >>)>> >>),
    (* a page object without size *)
    PageNoSize |->
      Obj(<< <<RouterText.page, Obj(<<>>)>> >>),
    (* a deadline above the maximum of the schema *)
    LongDeadline |->
      Obj(<< <<RouterText.options, Obj(<< <<RouterText.timeoutMs, Num(10000)>> >>)>> >>),
    (* a sort entry without a field *)
    BadSort |->
      Obj(<< <<RouterText.sort, Arr(<< Obj(<<>>) >>)>> >>),
    Suggest |->
      Obj(<< <<SimpleEngineText.prefix, Str(SampleText.ac)>> >>),
    (* a body without the required prefix *)
    SuggestNoPrefix |->
      Obj(<<>>) ]

(***************************************************************************)
(* The bodies sent to the classifier: every combination of a query text,   *)
(* a filters object and a page size, and of a query text, a filter, a sort *)
(* and an option, each of them absent or one of the shapes the classifier  *)
(* tells apart, and the sorts whose entries have no field to read.         *)
(***************************************************************************)
ClassifierBodies ==
  LET ObjOf(members) == Obj(SelectSeq(members, LAMBDA m : m[2] # Undef))
      one(k, v) == Obj(<< <<k, v>> >>)
      customers == Arr(<<Str(SampleText.customer)>>)
      texts ==
        {Undef, Str(SampleText.acme), Str(SampleText.shortWildcard),
         Str(SampleText.longWildcard), Str(SampleText.fuzzy), Str(SampleText.phrase),
         Str(SampleText.sixWords), Str([i \in 1..51 |-> "a"])}
      filterObjects ==
        {Undef,
         one(RouterText.entity, customers),
         Obj(<< <<RouterText.entity, customers>>,
                <<RouterText.status, Arr(<<Str(SampleText.active)>>)>>,
                <<RouterText.region, Str(SampleText.ac)>> >>),
         one(SampleText.createdAt, one(SimpleEngineText.gte, Str(SampleText.year))),
         one(SampleText.createdAt, Arr(<<Str(SampleText.year)>>)),
         one(SampleText.createdAt, Null),
         one(SampleText.dueDate, Str(SampleText.year)),
         one(RouterText.region, one(SimpleEngineText.prefix, Str(SampleText.ac)))}
      sorts == {Undef, Arr(<< one(ClassifierText.field, Str(ClassifierText.title)) >>)}
      pages == {Undef, one(RouterText.size, Num(50)), one(RouterText.size, Num(51))}
      optionObjects ==
        {Undef, one(ClassifierText.highlight, Bool(TRUE)),
         one(ClassifierText.suggest, Bool(TRUE))}
      badSorts ==
        {Arr(<< Obj(<<>>) >>), Arr(<< Str(ClassifierText.title) >>), Arr(<< Null >>),
         Arr(<< one(ClassifierText.field, Str(ClassifierText.title)),
                one(ClassifierText.field, Num(1)) >>)}
      body(q, f, s, pg, o) ==
        ObjOf(<< <<RouterText.q, q>>, <<RouterText.filters, f>>, <<RouterText.sort, s>>,
                 <<RouterText.page, pg>>, <<RouterText.options, o>> >>)
  IN { body(q, f, Undef, pg, Undef) : q \in texts, f \in filterObjects, pg \in pages }
     \cup { body(q, f, s, Undef, o) :
              q \in {Undef, Str(SampleText.acme), Str(SampleText.phrase),
                     Str(SampleText.sixWords)},
              f \in {Undef, one(RouterText.entity, customers)},
              s \in sorts, o \in optionObjects }
     \cup { one(RouterText.sort, s) : s \in badSorts }

(* Values of Date.now() seen by the health probe. *)
ProbeTimes == {7}

(***************************************************************************)
(* What handleSearch derives from a request before its first await on an   *)
(* engine: the locals searchRequest, cacheKey, classification,             *)
(* authorizedRequest and timeoutMs, and the tenant restriction of each     *)
(* engine call the plan and the fallback can make.                         *)
(***************************************************************************)
(* The fields every request record has: the headers, the body as sent and *)
(* as the handler sees it, and the history of the request (whether the     *)
(* deadline fired, the result of the complex call of a hybrid plan, what   *)
(* the engine matched, what filterByIds admitted, whether the 200 ms of    *)
(* the degraded search passed unanswered, whether an L2 operation threw,   *)
(* whether classify throws on the request, the engine call of the plan     *)
(* that lost the race against the deadline and is still in flight, the     *)
(* steps handleSearch has run in their order, whether the Typesense call   *)
(* of suggest failed).                                                     *)
RequestBase(kind, tenant, auth, sent) ==
  [kind |-> kind, valid |-> FALSE, ok |-> FALSE, tenant |-> tenant, auth |-> auth,
   sent |-> sent, body |-> sent,
   deadlineFired |-> FALSE, complexResult |-> Undef, matched |-> <<>>,
   passed |-> <<>>, overdue |-> FALSE, l2Fault |-> FALSE, classifyThrows |-> FALSE,
   abandoned |-> "none", steps |-> <<>>, engineFailed |-> FALSE]

SearchLocals(tenant, auth, sent) ==
  LET base == RequestBase("search", tenant, auth, sent)
      body == SearchSchemaDefaults(sent)
      ext == extractTenantId(auth, tenant)
      locals(searchRequest, authorized, classification) ==
        [cacheKey |-> generateCacheKey(ext.tenantId, searchRequest),
         classification |-> classification,
         authorized |-> authorized,
         timeoutMs |-> TimeoutMsOf(searchRequest),
         planScope |->
           IF classification.type = "simple" THEN SimpleSearchScope(authorized)
           ELSE IF classification.type = "complex" THEN ComplexSearchScope(authorized)
           ELSE ComplexSearchScope(HybridComplexRequest(authorized)),
         cursorThrows |->
           classification.type = "complex" /\ OpenSearchCursorThrows(authorized),
         simpleFiltering |-> shouldUseSimpleEngineFiltering(authorized),
         filterScope |-> FilterByIdsScope(authorized),
         fallbackScope |-> SimpleSearchScope(FallbackRequest(authorized))]
      derived(searchRequest) ==
        locals(searchRequest, applyAuthzFilters(searchRequest),
               IF classifyThrows(searchRequest)
               THEN [type |-> "none", complexityScore |-> 0, cacheable |-> FALSE,
                     estimatedLatency |-> 0]
               ELSE classify(searchRequest))
  IN IF ~SearchSchemaAccepts(sent) THEN base
     ELSE IF ~ext.ok THEN [base EXCEPT !.valid = TRUE, !.body = body]
     ELSE derived(WithTenant(body, tenant))
          @@ [base EXCEPT !.valid = TRUE, !.ok = TRUE, !.body = body]

(* What handleSuggest derives from a request. *)
SuggestLocals(tenant, auth, sent) ==
  LET base == RequestBase("suggest", tenant, auth, sent)
      body == SuggestSchemaDefaults(sent)
      ext == extractTenantId(auth, tenant)
  IN IF ~SuggestSchemaAccepts(sent) THEN base
     ELSE IF ~ext.ok THEN [base EXCEPT !.valid = TRUE, !.body = body]
     ELSE [cacheKey |-> suggestCacheKey(ext.tenantId, body),
           planScope |-> SuggestScope(WithTenant(body, ext.tenantId))]
          @@ [base EXCEPT !.valid = TRUE, !.ok = TRUE, !.body = body]

(* SearchRouter.estimateLatency: baseLatency[type] * (1 + score / 10), not  *)
(* rounded; in hundredths of a millisecond, the score being in tenths.     *)
routerEstimateLatency(classification) ==
  LET baseLatency == CASE classification.type = "simple" -> 50
                       [] classification.type = "complex" -> 200
                       [] classification.type = "hybrid" -> 150
  IN baseLatency * (100 + classification.complexityScore)

(* handleExplain: the explanation it returns; expected_latency_ms is in    *)
(* hundredths of a millisecond.  When classify throws the catch block      *)
(* answers the explanation of an error.                                    *)
ExplainResponse(tenantId, searchRequest) ==
  IF classifyThrows(searchRequest)
  THEN [ classification |-> "error",
         routing |-> [engine |-> "none"],
         estimated_cost |-> [complexity_score |-> 0, expected_latency_ms |-> 0],
         cache_strategy |-> [cacheable |-> FALSE, key |-> <<>>, ttl_seconds |-> 0] ]
  ELSE
  LET explanation(classification) ==
        [ classification |-> classification.type,
          routing |-> [engine |-> IF classification.type = "simple"
                                  THEN "typesense" ELSE "opensearch"],
          estimated_cost |->
            [complexity_score |-> classification.complexityScore,
             expected_latency_ms |-> routerEstimateLatency(classification)],
          cache_strategy |->
            [cacheable |-> classification.cacheable,
             key |-> generateCacheKey(tenantId, searchRequest),
             ttl_seconds |-> calculateCacheTtl(classification, Null)] ]
  IN explanation(classify(searchRequest))

(* What handleExplain derives from a request. *)
ExplainLocals(tenant, auth, sent) ==
  LET base == RequestBase("explain", tenant, auth, sent)
      body == ExplainSchemaDefaults(sent)
      ext == extractTenantId(auth, tenant)
  IN IF ~ExplainSchemaAccepts(sent) THEN base
     ELSE IF ~ext.ok THEN [base EXCEPT !.valid = TRUE, !.body = body]
     ELSE [explanation |-> ExplainResponse(ext.tenantId, WithTenant(body, ext.tenantId))]
          @@ [base EXCEPT !.valid = TRUE, !.ok = TRUE, !.body = body,
                          !.classifyThrows =
                             classifyThrows(WithTenant(body, ext.tenantId))]

(***************************************************************************)
(* The requests the clients send: headers and body.  The clients of a run  *)
(* belong to one group, each sending the requests of one concern: tenants  *)
(* and cache keys, execution plans, cursors that do not decode,            *)
(* explanation; and, each in a specification of its own, paging, the       *)
(* classifier, health, the cache and request options.                      *)
(***************************************************************************)
ClientGroups == {"tenants", "plans", "cursors", "explain"}

SearchRequestsBy ==
  LET bodies ==
        [ tenants |-> {"Simple", "SimplePermuted", "LargePage", "ForeignTenant"},
          plans |-> {"Simple", "Hybrid", "HybridTags", "Complex", "LongDeadline"},
          paging |-> {"Paged", "PagedNext", "ComplexPaged", "ComplexPagedNext",
                      "Hybrid", "HybridNext"},
          cursors |-> {"Paged", "BadCursor", "ComplexBadCursor"},
          explain |-> {"Simple", "PageNoSize", "BadSort"},
          health |-> {"Simple"},
          options |-> {"Complex", "TextOnly"} ]
      \* <<x-tenant-id header, whether authorized, name of the body>>
      sent(group) ==
        {<<TenantA, TRUE, name>> : name \in bodies[group]}
        \cup (IF group = "tenants"
              THEN {<<TenantB, TRUE, "Simple">>, <<<<>>, TRUE, "Simple">>,
                    <<TenantA, FALSE, "Simple">>}
              ELSE {})
  IN [ group \in ClientGroups \cup {"paging", "health", "options"} |->
          {SearchLocals(s[1], s[2], Body[s[3]]) : s \in sent(group)} ]

SuggestRequestsBy ==
  LET sent(group) ==
        IF group = "tenants"
        THEN {<<tenant, TRUE, "Suggest">> : tenant \in Tenants}
             \cup {<<<<>>, TRUE, "Suggest">>, <<TenantA, FALSE, "Suggest">>,
                   <<TenantA, TRUE, "SuggestNoPrefix">>}
        ELSE {}
  IN [ group \in ClientGroups |->
          {SuggestLocals(s[1], s[2], Body[s[3]]) : s \in sent(group)} ]

ExplainRequestsBy ==
  LET sent(group) ==
        IF group = "explain"
        THEN {<<s[1], s[2], Body[s[3]]>> :
                s \in {<<TenantA, TRUE, name>> :
                         name \in {"Simple", "Hybrid", "PageNoSize", "BadCursor",
                                   "BadSort"}}
                      \cup {<<<<>>, TRUE, "Simple">>, <<TenantA, FALSE, "Simple">>}}
        ELSE IF group = "classifier"
        THEN {<<TenantA, TRUE, body>> : body \in ClassifierBodies}
        ELSE {}
  IN [ group \in ClientGroups \cup {"classifier"} |->
          {ExplainLocals(s[1], s[2], s[3]) : s \in sent(group)} ]

SearchRequests == UNION {SearchRequestsBy[group] : group \in ClientGroups}

(***************************************************************************)
(* State.                                                                  *)
(***************************************************************************)
VARIABLES
  pc,         \* per handler context: position in handleSearch / handleSuggest
  req,        \* per handler context: the request being handled and its locals
  reply,      \* the reply sent by the last step: its request, status code and body
  l1,         \* CacheService.l1Cache: entries, least recently used first
  l2,         \* the shared L2 store (Redis): set of [key, val]
  l2Enabled,  \* CacheService.l2Enabled
  written,    \* history: per key, what the handlers wrote to the cache (DeleteSpec:
              \* the keys deleted)
  probeKeys,  \* the keys the health probe passed to CacheService in the last step
  nreq,       \* number of requests accepted so far
  clients,    \* the group the clients of this run belong to
  lastHealthCheck  \* HealthService.lastHealthCheck: status "none" while unset

vars == <<pc, req, reply, l1, l2, l2Enabled, written, probeKeys, nreq, clients,
          lastHealthCheck>>

(* Two handler contexts, so that two requests can overlap. *)
Procs == {"h1", "h2"}

IdleReq == RequestBase("none", <<>>, FALSE, Undef)

(* path: which return produced the reply ("cache", "plan", "degraded",     *)
(* "empty", "error", "explain", and of the framework "rejected" and        *)
(* "unhandled"); lowerBound: whether the total of a      *)
(* hybrid merge counts fewer documents than passed the filters.            *)
NoReply ==
  [req |-> IdleReq, status |-> 0, body |-> Undef, path |-> "none", lowerBound |-> FALSE]

Reply(r, status, body, path, lowerBound) ==
  [req |-> r, status |-> status, body |-> body, path |-> path, lowerBound |-> lowerBound]

(* A new request takes the first idle context. *)
CanStart(p) == pc[p] = "idle" /\ (p = "h2" => pc["h1"] # "idle")

(* The engine call a context is awaiting. *)
PendingCall(p) ==
  CASE pc[p] = "plan" ->
         [engine |-> IF req[p].classification.type = "simple" THEN "simple" ELSE "complex",
          op |-> "search", scope |-> req[p].planScope]
    [] pc[p] = "hybrid2" ->
         [engine |-> "simple", op |-> "filterByIds", scope |-> req[p].filterScope]
    [] pc[p] = "fallback" ->
         [engine |-> "simple", op |-> "search", scope |-> req[p].fallbackScope]
    [] pc[p] = "suggest" ->
         [engine |-> "simple", op |-> "suggest", scope |-> req[p].planScope]

(* The history of a key after one more cache write: who wrote it, the      *)
(* latest hits and total, every pair of hits and total written so far,     *)
(* whether the latest write reached L2, whether its TTL has run out,       *)
(* whether a write under the key was made while another handler that had   *)
(* missed on the same key was still on its way to write.                   *)
Written(r, result, l2ok) ==
  LET hits == IF r.kind = "search" THEN result.hits ELSE result.suggestions
      total == IF r.kind = "search" THEN result.total
               ELSE [value |-> Len(result.suggestions), relation |-> "eq"]
      before == {w \in written : w.key = r.cacheKey}
      versions == UNION {w.versions : w \in before}
      writers == UNION {w.writers : w \in before}
      missed == {q \in Procs : pc[q] # "idle" /\ req[q].kind = r.kind
                                  /\ req[q].cacheKey = r.cacheKey}
  IN (written \ before)
     \cup {[key |-> r.cacheKey, kind |-> r.kind,
            writers |-> writers \cup {r.tenant},
            cacheable |-> IF r.kind = "search" THEN r.classification.cacheable ELSE TRUE,
            hits |-> hits, total |-> total,
            versions |-> versions \cup {<<hits, total>>},
            l2 |-> l2Enabled /\ l2ok,
            elapsed |-> FALSE,
            raced |-> (\E w \in before : w.raced) \/ Cardinality(missed) > 1]}

(* The state after construction, the clients being of the given group:    *)
(* no request, empty caches, L2 configured or not, no health check yet.    *)
InitOf(group) ==
  /\ pc = [p \in Procs |-> "idle"]
  /\ req = [p \in Procs |-> IdleReq]
  /\ reply = NoReply
  /\ l1 = <<>>
  /\ l2 = {}
  /\ l2Enabled \in BOOLEAN
  /\ written = {}
  /\ probeKeys = {}
  /\ nreq = 0
  /\ clients = group
  /\ lastHealthCheck = [status |-> "none"]

Init == \E group \in ClientGroups : InitOf(group)

(* return: the reply leaves and the context is idle again. *)
Return(p, r, status, body, path, lowerBound) ==
  /\ reply' = Reply(r, status, body, path, lowerBound)
  /\ pc' = [pc EXCEPT ![p] = "idle"]
  /\ req' = [req EXCEPT ![p] = IdleReq]

(* The framework answers before or instead of the handler: 400 when the   *)
(* body violates the route's schema, 500 when extractTenantId throws (it   *)
(* is called outside the handler's try block).                             *)
FrameworkReply(p, r) ==
  IF ~r.valid
  THEN Return(p, r, 400, FrameworkError(400), "rejected", FALSE)
  ELSE Return(p, r, 500, FrameworkError(500), "unhandled", FALSE)

(* Whether CacheService.get reaches L2 for the key and the read throws. *)
GetFaults(key, l2ok) == l2Enabled /\ ~l2ok /\ ~L1Get(l1, key).hit

(***************************************************************************)
(* handleSearch up to its first engine call: extractTenantId,              *)
(* generateCacheKey, cacheService.get, and on a miss classify,             *)
(* applyAuthzFilters and the start of the plan.                            *)
(***************************************************************************)
SearchStart(p) ==
  /\ CanStart(p)
  /\ nreq < MaxRequests
  /\ \E r0 \in SearchRequestsBy[clients], l2ok \in BOOLEAN :
       /\ nreq' = nreq + 1
       /\ IF ~r0.ok
          THEN /\ FrameworkReply(p, r0)
               /\ UNCHANGED l1
          ELSE LET got == cacheGet(l1, l2, l2Enabled, r0.cacheKey, l2ok)
                   \* extractTenantId, generateCacheKey, cacheService.get; on a
                   \* miss classify, applyAuthzFilters and the race of the plan
                   r == [r0 EXCEPT
                           !.l2Fault = GetFaults(r0.cacheKey, l2ok),
                           !.steps =
                             <<"tenant", "fingerprint", "lookup">>
                             \o (IF got.hit THEN <<>>
                                 ELSE IF r0.classifyThrows THEN <<"classify">>
                                 ELSE <<"classify", "authorize", "dispatch">>)]
               IN /\ l1' = got.l1
                  /\ IF got.hit
                     THEN Return(p, r, 200, CachedReply(got.val), "cache", FALSE)
                     ELSE IF r.classifyThrows
                     THEN \* the TypeError of classify reaches the outer catch
                          Return(p, r, 500, ErrorEnvelope(PageSizeOf(r.authorized)),
                                 "error", FALSE)
                     ELSE /\ pc' = [pc EXCEPT ![p] = "plan"]
                          /\ req' = [req EXCEPT ![p] = r]
                          /\ reply' = NoReply
  /\ probeKeys' = {}
  /\ UNCHANGED <<l2, l2Enabled, clients, lastHealthCheck, written>>

(* The plan completed: cacheService.set, then performance and debug. *)
Finish(p, r0, result, lowerBound, l2ok) ==
  LET r == [r0 EXCEPT !.l2Fault = @ \/ (l2Enabled /\ ~l2ok)]
      stored == cacheSet(l1, l2, l2Enabled, r.cacheKey, result, l2ok)
      final == Assemble(result, r.classification, r.cacheKey)
  IN \* L1 holds the result object itself, which the handler then changes
     /\ l1' = [i \in 1..Len(stored.l1) |->
                 IF stored.l1[i].key = r.cacheKey
                 THEN [stored.l1[i] EXCEPT !.val = final]
                 ELSE stored.l1[i]]
     /\ l2' = stored.l2
     /\ written' = Written(r, result, l2ok)
     /\ Return(p, r, 200, final, "plan", lowerBound)
     /\ probeKeys' = {}
     /\ UNCHANGED <<l2Enabled, clients, lastHealthCheck, nreq>>

(* The catch of the inner try: a message containing 'timeout' starts the   *)
(* degraded search of getPartialResults; any other error reaches the outer *)
(* catch, which answers 500 with the error envelope.  When the rejection   *)
(* is the deadline's, Promise.race has settled and the plan it raced       *)
(* against goes on: its engine call stays in flight.                       *)
Caught(p, r0, message, fired) ==
  LET r == [r0 EXCEPT !.deadlineFired = fired,
                      !.abandoned = IF fired THEN PendingCall(p).op ELSE "none"]
  IN /\ IF IsTimeoutError(message)
        THEN /\ pc' = [pc EXCEPT ![p] = "fallback"]
             /\ req' = [req EXCEPT ![p] = r]
             /\ reply' = NoReply
        ELSE Return(p, r, 500, ErrorEnvelope(PageSizeOf(r.authorized)), "error", FALSE)
     /\ probeKeys' = {}
     /\ UNCHANGED <<l1, l2, l2Enabled, clients, lastHealthCheck, written, nreq>>

(* The first engine call of the plan answers.  The complex adapter throws  *)
(* after the answer when it cannot parse the cursor of the request.        *)
PlanReturn(p) ==
  /\ pc[p] = "plan"
  /\ LET type == req[p].classification.type
     IN \E matched \in MatchChoices(req[p].planScope), l2ok \in BOOLEAN :
          LET r == [req[p] EXCEPT !.matched = matched]
          IN IF type = "simple"
             THEN Finish(p, r, transformTypesenseResponse(
                                 TypesenseResult(matched, r.authorized), r.authorized),
                         FALSE, l2ok)
             ELSE IF type = "complex"
             THEN IF r.cursorThrows
                  THEN Caught(p, r, ComplexEngineText.unexpectedToken, FALSE)
                  ELSE Finish(p, r, transformOpenSearchResponse(matched, r.authorized),
                              FALSE, l2ok)
             ELSE LET hybrid(complexResult) ==
                        IF r.simpleFiltering
                        THEN /\ pc' = [pc EXCEPT ![p] = "hybrid2"]
                             /\ req' = [req EXCEPT ![p] =
                                          [r EXCEPT !.complexResult = complexResult]]
                             /\ reply' = NoReply
                             /\ probeKeys' = {}
                             /\ UNCHANGED <<l1, l2, l2Enabled, clients, lastHealthCheck, written, nreq>>
                        ELSE Finish(p, r, complexResult, FALSE, l2ok)
                  IN hybrid(transformOpenSearchResponse(
                              matched, HybridComplexRequest(r.authorized)))

(* The simple engine answers the filterByIds call of the hybrid plan. *)
Hybrid2Return(p) ==
  /\ pc[p] = "hybrid2"
  /\ LET complexResult == req[p].complexResult
         docIds == {complexResult.hits[i] : i \in 1..Len(complexResult.hits)}
         admitted == SelectSeq(InScope(req[p].filterScope), LAMBDA d : d \in docIds)
     IN \E found \in {admitted} \cup (IF admitted = <<>> THEN {} ELSE {Tail(admitted)}),
           l2ok \in BOOLEAN :
          LET r == [req[p] EXCEPT !.passed = found]
              simpleResult ==
                transformTypesenseResponse(FilterByIdsResult(found, r.authorized),
                                           r.authorized)
          IN Finish(p, r, mergeHybridResults(complexResult, simpleResult,
                                             PageSizeOf(r.authorized)),
                    mergeUndercounts(complexResult, simpleResult,
                                     PageSizeOf(r.authorized)),
                    l2ok)

(* An engine call of the plan throws. *)
PlanFails(p) ==
  /\ pc[p] \in {"plan", "hybrid2"}
  /\ \E message \in EngineErrorMessages : Caught(p, req[p], message, FALSE)

(* createTimeoutPromise rejects before the plan settles. *)
DeadlineFires(p) ==
  /\ pc[p] \in {"plan", "hybrid2"}
  /\ Caught(p, req[p],
            createTimeoutPromise(req[p].timeoutMs, req[p].classification.type), TRUE)

(* The plan that lost the race goes on while the handler awaits the        *)
(* degraded search: its engine call settles, and executeHybridSearch, when *)
(* its complex search has answered, starts the filterByIds call; what the  *)
(* plan returns or throws is dropped.                                      *)
AbandonedPlanContinues(p) ==
  /\ pc[p] = "fallback"
  /\ req[p].abandoned # "none"
  /\ \E answered \in BOOLEAN :
       req' = [req EXCEPT ![p].abandoned =
                 IF /\ answered /\ @ = "search"
                    /\ req[p].classification.type = "hybrid" /\ req[p].simpleFiltering
                 THEN "filterByIds" ELSE "none"]
  /\ reply' = NoReply
  /\ probeKeys' = {}
  /\ UNCHANGED <<pc, l1, l2, l2Enabled, clients, lastHealthCheck, written, nreq>>

(* 200 ms pass while the degraded search of getPartialResults is awaited:  *)
(* timeout_ms: 200 is an option of the degraded request that the simple    *)
(* adapter does not read, and the await is raced against no timer, so      *)
(* nothing happens in the handler.                                         *)
DegradedBudgetElapses(p) ==
  /\ pc[p] = "fallback"
  /\ ~req[p].overdue
  /\ req' = [req EXCEPT ![p].overdue = TRUE]
  /\ reply' = NoReply
  /\ probeKeys' = {}
  /\ UNCHANGED <<pc, l1, l2, l2Enabled, clients, lastHealthCheck, written, nreq>>

(* getPartialResults settling with the partial result set in the cache *)
FallbackReturnCached(p) ==
  /\ pc[p] = "fallback"
  /\ LET r == req[p]
         fallbackRequest == FallbackRequest(r.authorized)
         Answer(result, path) ==
           LET partial == [result EXCEPT !.performance.partial = TRUE]
               stored == cacheSet(l1, l2, l2Enabled, r.cacheKey, partial, TRUE)
           IN /\ l1' = stored.l1
              /\ l2' = stored.l2
              /\ Return(p, r, 200, Assemble(partial, r.classification, r.cacheKey),
                        path, FALSE)
     IN \/ \E matched \in MatchChoices(r.fallbackScope) :
             Answer(transformTypesenseResponse(
                      TypesenseResult(matched, fallbackRequest), fallbackRequest),
                    "degraded")
        \/ Answer(EmptyFallback(PageSizeOf(r.authorized)), "empty")
  /\ probeKeys' = {}
  /\ UNCHANGED <<l2Enabled, clients, lastHealthCheck, written, nreq>>

(* getPartialResults settles: the degraded search answers ("degraded") or  *)
(* throws and the last-resort body is returned ("empty"); then             *)
(* result.performance.partial = true, performance and debug.               *)
FallbackReturn(p) ==
  /\ pc[p] = "fallback"
  /\ LET r == req[p]
         fallbackRequest == FallbackRequest(r.authorized)
         Answer(result, path) ==
           LET partial == [result EXCEPT !.performance.partial = TRUE]
           IN Return(p, r, 200, Assemble(partial, r.classification, r.cacheKey),
                     path, FALSE)
     IN \/ \E matched \in MatchChoices(r.fallbackScope) :
             Answer(transformTypesenseResponse(
                      TypesenseResult(matched, fallbackRequest), fallbackRequest),
                    "degraded")
        \/ Answer(EmptyFallback(PageSizeOf(r.authorized)), "empty")
  /\ probeKeys' = {}
  /\ UNCHANGED <<l1, l2, l2Enabled, clients, lastHealthCheck, written, nreq>>

(***************************************************************************)
(* handleSuggest.                                                          *)
(***************************************************************************)
SuggestStart(p) ==
  /\ CanStart(p)
  /\ nreq < MaxRequests
  /\ \E r0 \in SuggestRequestsBy[clients], l2ok \in BOOLEAN :
       IF ~r0.ok
       THEN /\ FrameworkReply(p, r0)
            /\ UNCHANGED l1
       ELSE LET got == cacheGet(l1, l2, l2Enabled, r0.cacheKey, l2ok)
                r == [r0 EXCEPT !.l2Fault = GetFaults(r0.cacheKey, l2ok)]
            IN /\ l1' = got.l1
               /\ IF got.hit
                  THEN Return(p, r, 200,
                              [got.val EXCEPT !.performance = [cached |-> TRUE]],
                              "cache", FALSE)
                  ELSE /\ pc' = [pc EXCEPT ![p] = "suggest"]
                       /\ req' = [req EXCEPT ![p] = r]
                       /\ reply' = NoReply
  /\ nreq' = nreq + 1
  /\ probeKeys' = {}
  /\ UNCHANGED <<l2, l2Enabled, clients, lastHealthCheck, written>>

(* SimpleSearchEngine.suggest never throws: its catch block returns no      *)
(* suggestions when the Typesense call fails.                              *)
SuggestReturn(p) ==
  /\ pc[p] = "suggest"
  /\ \E failed \in BOOLEAN, l2ok \in BOOLEAN :
       \E suggestions \in IF failed THEN {<<>>} ELSE MatchChoices(req[p].planScope) :
          LET r == [req[p] EXCEPT !.l2Fault = @ \/ (l2Enabled /\ ~l2ok),
                                  !.engineFailed = failed]
              result == [suggestions |-> suggestions,
                         performance |-> [engine |-> "simple", cached |-> FALSE,
                                          partial |-> FALSE]]
              stored == cacheSet(l1, l2, l2Enabled, r.cacheKey, result, l2ok)
          IN /\ l1' = stored.l1
             /\ l2' = stored.l2
             /\ written' = Written(r, result, l2ok)
             /\ Return(p, r, 200, [result EXCEPT !.performance = [cached |-> FALSE]],
                       "plan", FALSE)
  /\ probeKeys' = {}
  /\ UNCHANGED <<l2Enabled, clients, lastHealthCheck, nreq>>

(***************************************************************************)
(* handleExplain: extractTenantId, classify, getRoutingStrategy,           *)
(* generateCacheKey and calculateCacheTtl; the handler awaits no engine    *)
(* and no cache call.                                                      *)
(***************************************************************************)
(* An explain handler that looks its key up in the cache as handleSearch   *)
(* does.                                                                   *)
ExplainProbingCache(p) ==
  /\ CanStart(p)
  /\ nreq < MaxRequests
  /\ \E r \in ExplainRequestsBy[clients] :
       /\ IF ~r.ok THEN FrameworkReply(p, r)
          ELSE Return(p, r, IF r.classifyThrows THEN 500 ELSE 200, r.explanation,
                   "explain", FALSE)
       /\ l1' = IF r.ok
                THEN cacheGet(l1, l2, l2Enabled, r.explanation.cache_strategy.key, TRUE).l1
                ELSE l1
  /\ nreq' = nreq + 1
  /\ probeKeys' = {}
  /\ UNCHANGED <<l2, l2Enabled, clients, lastHealthCheck, written>>

(* handleExplain *)
Explain(p) ==
  /\ CanStart(p)
  /\ nreq < MaxRequests
  /\ \E r \in ExplainRequestsBy[clients] :
       IF ~r.ok THEN FrameworkReply(p, r)
       ELSE Return(p, r, IF r.classifyThrows THEN 500 ELSE 200, r.explanation,
                   "explain", FALSE)
  /\ nreq' = nreq + 1
  /\ probeKeys' = {}
  /\ UNCHANGED <<l1, l2, l2Enabled, clients, lastHealthCheck, written>>

(***************************************************************************)
(* CacheService.clear: L1 is emptied; flushdb empties L2 unless it throws. *)
(***************************************************************************)
cacheClear(cache, store, enabled, l2ok) ==
  [ l1 |-> <<>>, l2 |-> IF enabled /\ l2ok THEN {} ELSE store ]

Clear ==
  \E l2ok \in BOOLEAN :
    LET cleared == cacheClear(l1, l2, l2Enabled, l2ok)
    IN /\ l1' = cleared.l1
       /\ l2' = cleared.l2
       /\ reply' = NoReply
       /\ probeKeys' = {}
       /\ UNCHANGED <<pc, req, l2Enabled, clients, lastHealthCheck, written, nreq>>

(***************************************************************************)
(* HealthService.  checkCache sets, gets and deletes a test key through    *)
(* CacheService and reports healthy when the get returned the value,       *)
(* degraded otherwise.                                                     *)
(***************************************************************************)
checkCacheProbe(ts, l2ok) ==
  LET testKey == healthTestKey(ts)
      afterSet == cacheSet(l1, l2, l2Enabled, testKey, [test |-> TRUE], l2ok)
      got == cacheGet(afterSet.l1, afterSet.l2, l2Enabled, testKey, l2ok)
      afterDelete == cacheDelete(got.l1, afterSet.l2, l2Enabled, testKey, l2ok)
  IN [ l1 |-> afterDelete.l1, l2 |-> afterDelete.l2, testKey |-> testKey,
       status |-> IF got.hit THEN "healthy" ELSE "degraded" ]

(* The cache probe on its own, as the router and the cache see it. *)
checkCache ==
  \E ts \in ProbeTimes, l2ok \in BOOLEAN :
    LET probe == checkCacheProbe(ts, l2ok)
    IN /\ l1' = probe.l1
       /\ l2' = probe.l2
       /\ probeKeys' = {probe.testKey}
       /\ reply' = NoReply
       /\ UNCHANGED <<pc, req, l2Enabled, clients, lastHealthCheck, written, nreq>>

(* performHealthCheck, after the three probes settled: the statuses of the *)
(* services and the overall status.                                        *)
SystemHealth(simpleHealthy, complexHealthy, cacheStatus) ==
  LET services ==
        [ simple_engine |-> IF simpleHealthy THEN "healthy" ELSE "unhealthy",
          complex_engine |-> IF complexHealthy THEN "healthy" ELSE "unhealthy",
          cache |-> cacheStatus ]
      serviceStatuses == {services[s] : s \in DOMAIN services}
  IN [ status |-> IF serviceStatuses = {"healthy"} THEN "healthy"
                  ELSE IF "healthy" \in serviceStatuses THEN "degraded"
                  ELSE "unhealthy",
       services |-> services ]

(* isReady with degraded taken for not ready *)
isReadyWhenHealthy(health) == health.status = "healthy"

(* isReady, of the health getHealth returned *)
isReady(health) == health.status = "healthy" \/ health.status = "degraded"

(* The probe of the 30 s timer: the engines answer their health checks or  *)
(* not, the cache is probed, and lastHealthCheck is replaced.              *)
performHealthCheck ==
  \E ts \in ProbeTimes, l2ok \in BOOLEAN, simpleHealthy \in BOOLEAN,
     complexHealthy \in BOOLEAN :
    LET probe == checkCacheProbe(ts, l2ok)
    IN /\ l1' = probe.l1
       /\ l2' = probe.l2
       /\ probeKeys' = {probe.testKey}
       /\ lastHealthCheck' = SystemHealth(simpleHealthy, complexHealthy, probe.status)
       /\ reply' = NoReply
       /\ UNCHANGED <<pc, req, l2Enabled, clients, written, nreq>>

(* GET /ready: getHealth performs a health check when none was made yet;   *)
(* 200 when isReady, 503 otherwise.                                        *)
Ready ==
  \E ts \in ProbeTimes, l2ok \in BOOLEAN, simpleHealthy \in BOOLEAN,
     complexHealthy \in BOOLEAN :
    LET first == lastHealthCheck.status = "none"
        probe == checkCacheProbe(ts, l2ok)
        health == IF first
                  THEN SystemHealth(simpleHealthy, complexHealthy, probe.status)
                  ELSE lastHealthCheck
        r == RequestBase("ready", <<>>, FALSE, Undef)
    IN /\ l1' = IF first THEN probe.l1 ELSE l1
       /\ l2' = IF first THEN probe.l2 ELSE l2
       /\ probeKeys' = IF first THEN {probe.testKey} ELSE {}
       /\ lastHealthCheck' = health
       /\ reply' = IF isReady(health)
                   THEN Reply(r, 200, [status |-> "ready"], "ready", FALSE)
                   ELSE Reply(r, 503, [status |-> "not ready"], "ready", FALSE)
       /\ UNCHANGED <<pc, req, l2Enabled, clients, written, nreq>>

(***************************************************************************)
(* Passing of time.                                                        *)
(***************************************************************************)
(* The TTL of the latest write of a key runs out: an L1 entry still        *)
(* carrying the age of that set becomes stale, and L2 drops the key.       *)
TtlElapse ==
  \E w \in written :
    /\ ~w.elapsed
    /\ written' = (written \ {w}) \cup {[w EXCEPT !.elapsed = TRUE]}
    /\ l1' = [k \in 1..Len(l1) |->
                IF l1[k].key = w.key /\ l1[k].age = "set"
                THEN [l1[k] EXCEPT !.age = "stale"] ELSE l1[k]]
    /\ l2' = L2Without(l2, w.key)
    /\ reply' = NoReply
    /\ probeKeys' = {}
    /\ UNCHANGED <<pc, req, l2Enabled, clients, lastHealthCheck, nreq>>

(* The TTL of an L1 entry that a get restarted or filled from L2 runs out. *)
(* A restarted entry outlives the TTL of the set that made it.             *)
L1Expire ==
  \E i \in 1..Len(l1) :
    /\ \/ l1[i].age = "filled"
       \/ /\ l1[i].age = "touched"
          /\ \A w \in written : w.key = l1[i].key => w.elapsed
    /\ l1' = [l1 EXCEPT ![i].age = "stale"]
    /\ reply' = NoReply
    /\ probeKeys' = {}
    /\ UNCHANGED <<pc, req, l2, l2Enabled, clients, lastHealthCheck, written, nreq>>

(* The TTL of an L2 value older than the latest write of its key (that     *)
(* write did not reach L2) runs out before the TTL of the latest write.    *)
L2Expire ==
  \E e \in l2 :
    /\ \E w \in written : w.key = e.key /\ ~w.l2
    /\ l2' = l2 \ {e}
    /\ reply' = NoReply
    /\ probeKeys' = {}
    /\ UNCHANGED <<pc, req, l1, l2Enabled, clients, lastHealthCheck, written, nreq>>

Next ==
  \/ \E p \in Procs : SearchStart(p)
  \/ \E p \in Procs : PlanReturn(p)
  \/ \E p \in Procs : Hybrid2Return(p)
  \/ \E p \in Procs : PlanFails(p)
  \/ \E p \in Procs : DeadlineFires(p)
  \/ \E p \in Procs : DegradedBudgetElapses(p)
  \/ \E p \in Procs : FallbackReturn(p)
  \/ \E p \in Procs : SuggestStart(p)
  \/ \E p \in Procs : SuggestReturn(p)
  \/ \E p \in Procs : Explain(p)
  \/ checkCache
  \/ Clear
  \/ TtlElapse
  \/ L1Expire
  \/ L2Expire

Spec == Init /\ [][Next]_vars

(***************************************************************************)
(* The classifier on its own: the clients send the bodies of               *)
(* ClassifierBodies to /explain, which answers what classify returns for   *)
(* each of them.                                                           *)
(***************************************************************************)
ClassifyNext == \E p \in Procs : Explain(p)

ClassifySpec == InitOf("classifier") /\ [][ClassifyNext]_vars

(***************************************************************************)
(* The health service next to the router: the timer probes, clients ask    *)
(* /ready, and /search requests of one body go through the simple plan     *)
(* and the cache that the probe writes to.  Spec has no reader of          *)
(* lastHealthCheck and takes the probe as checkCache.                      *)
(***************************************************************************)
HealthNext ==
  \/ performHealthCheck
  \/ Ready
  \/ \E p \in Procs : SearchStart(p)
  \/ \E p \in Procs : PlanReturn(p)

HealthSpec == InitOf("health") /\ [][HealthNext]_vars

(***************************************************************************)
(* The deadline and the plan it races against: /search requests of the     *)
(* plans group, the steps of their plans, the deadline, what the plan that *)
(* lost the race goes on to do, and the fallback.  Spec follows the        *)
(* handler, which never hears of that plan again.                          *)
(***************************************************************************)
DeadlineNext ==
  \/ \E p \in Procs : SearchStart(p)
  \/ \E p \in Procs : PlanReturn(p)
  \/ \E p \in Procs : Hybrid2Return(p)
  \/ \E p \in Procs : DeadlineFires(p)
  \/ \E p \in Procs : AbandonedPlanContinues(p)
  \/ \E p \in Procs : FallbackReturn(p)

DeadlineSpec == InitOf("plans") /\ [][DeadlineNext]_vars

(***************************************************************************)
(* Paging on its own: the clients send first pages and the pages their     *)
(* cursors point at, to each of the three plans.                           *)
(***************************************************************************)
PagingNext ==
  \/ \E p \in Procs : SearchStart(p)
  \/ \E p \in Procs : PlanReturn(p)
  \/ \E p \in Procs : Hybrid2Return(p)
  \/ \E p \in Procs : PlanFails(p)
  \/ \E p \in Procs : DeadlineFires(p)
  \/ \E p \in Procs : DegradedBudgetElapses(p)
  \/ \E p \in Procs : FallbackReturn(p)
  \/ checkCache
  \/ Clear
  \/ TtlElapse
  \/ L1Expire
  \/ L2Expire

PagingSpec == InitOf("paging") /\ [][PagingNext]_vars

(***************************************************************************)
(* CacheService on its own: callers set and get values under a few keys,   *)
(* with L2 enabled or not and its reads and writes throwing or not, and    *)
(* the TTL of an entry that L1 took from L2 runs out.  The reply of a get  *)
(* is what it returned and what it added to stats.                         *)
(***************************************************************************)
CallSet ==
  \E n \in 1..MaxCacheKeys, test \in BOOLEAN, l2ok \in BOOLEAN :
    LET stored == cacheSet(l1, l2, l2Enabled, healthTestKey(n), [test |-> test], l2ok)
    IN /\ l1' = stored.l1
       /\ l2' = stored.l2
       /\ reply' = NoReply
       /\ UNCHANGED <<pc, req, l2Enabled, clients, lastHealthCheck, written, nreq,
                      probeKeys>>

CallGet ==
  \E n \in 1..MaxCacheKeys, l2ok \in BOOLEAN :
    LET key == healthTestKey(n)
        got == cacheGet(l1, l2, l2Enabled, key, l2ok)
        r == [cacheKey |-> key]
             @@ [RequestBase("get", <<>>, FALSE, Undef) EXCEPT
                   !.l2Fault = GetFaults(key, l2ok)]
    IN /\ l1' = got.l1
       /\ reply' = Reply(r, 0, [hit |-> got.hit, val |-> got.val, stats |-> got.stats],
                         "get", FALSE)
       /\ UNCHANGED <<pc, req, l2, l2Enabled, clients, lastHealthCheck, written, nreq,
                      probeKeys>>

CacheNext == CallSet \/ CallGet \/ L1Expire

CacheSpec == InitOf("cache") /\ [][CacheNext]_vars


(***************************************************************************)
(* Properties.                                                             *)
(***************************************************************************)
InFlight == {p \in Procs : pc[p] # "idle"}
Answered == reply.path # "none"
SearchAnswered == Answered /\ reply.req.kind = "search" /\ reply.req.ok

(* key starts with "search:<tenant>:" or "suggest:<tenant>:" of a tenant *)
TenantPrefixed(key) ==
  \E tenant \in Tenants :
    \/ StartsWith(key, RouterText.searchPrefix \o tenant \o <<":">>)
    \/ StartsWith(key, RouterText.suggestPrefix \o tenant \o <<":">>)

(* The keys passed to CacheService by the last step or held by the cache. *)
CacheKeysInUse ==
  probeKeys
  \cup {req[p].cacheKey : p \in InFlight}
  \cup (IF Answered /\ reply.req.ok /\ reply.req.kind \in {"search", "suggest"}
        THEN {reply.req.cacheKey} ELSE {})
  \cup {l1[i].key : i \in 1..Len(l1)}
  \cup {e.key : e \in l2}

(* Two JSON values equal up to the order of the keys of their mappings. *)
RECURSIVE SameUpToKeyOrder(_, _)
SameUpToKeyOrder(a, b) ==
  IF a.t # b.t THEN FALSE
  ELSE IF a.t = "obj"
  THEN /\ Len(a.o) = Len(b.o)
       /\ \A i \in 1..Len(a.o) :
            /\ HasKey(b, a.o[i][1])
            /\ SameUpToKeyOrder(a.o[i][2], Get(b, a.o[i][1]))
  ELSE IF a.t = "arr"
  THEN /\ Len(a.a) = Len(b.a)
       /\ \A i \in 1..Len(a.a) : SameUpToKeyOrder(a.a[i], b.a[i])
  ELSE a = b

(* The history of a key. *)
WrittenUnder(key) == {w \in written : w.key = key}

(***************************************************************************)
(* C1: every engine call a /search request is awaiting (simple search,     *)
(* complex search, filterByIds of the hybrid plan, degraded search of the  *)
(* fallback) admits documents of the tenant of the X-Tenant-ID header only.*)
(***************************************************************************)
C1_EngineCallsRestrictedToHeaderTenant ==
  \A p \in InFlight :
    req[p].kind = "search" => PendingCall(p).scope \subseteq {req[p].tenant}

(***************************************************************************)
(* C2: a reply served from the cache to a request of a tenant carries a    *)
(* value that requests of that tenant, and of no other tenant, wrote under *)
(* the key looked up; this holds for /search and for /suggest.             *)
(***************************************************************************)
C2_CacheHitWrittenBySameTenant ==
  (Answered /\ reply.path = "cache") =>
    \E w \in WrittenUnder(reply.req.cacheKey) :
      /\ w.writers = {reply.req.tenant}
      /\ w.kind = reply.req.kind
      /\ IF reply.req.kind = "search"
         THEN <<reply.body.hits, reply.body.total>> \in w.versions
         ELSE \E v \in w.versions : v[1] = reply.body.suggestions

(* The tenant whose identifier extends the other tenant's is served its    *)
(* own document from the cache.                                            *)
C2_Witness ==
  /\ Answered /\ reply.path = "cache"
  /\ reply.req.kind = "search"
  /\ reply.req.tenant = TenantB
  /\ reply.body.hits # <<>>

(***************************************************************************)
(* C3: every key passed to CacheService or held by it carries a tenant     *)
(* prefix, the keys of the periodic health probe included.                 *)
(***************************************************************************)
C3_EveryCacheKeyTenantPrefixed ==
  \A key \in CacheKeysInUse : TenantPrefixed(key)

(***************************************************************************)
(* C4: two /search requests of one tenant whose bodies differ only in the  *)
(* order of the keys of a mapping get the same cache key.                  *)
(***************************************************************************)
C4_KeyIgnoresMappingKeyOrder ==
  \A p, q \in InFlight :
    ( /\ req[p].kind = "search" /\ req[q].kind = "search"
      /\ req[p].tenant = req[q].tenant
      /\ SameUpToKeyOrder(req[p].body, req[q].body) )
    => req[p].cacheKey = req[q].cacheKey

(***************************************************************************)
(* C5: only /search requests classified cacheable write to the cache, and  *)
(* once a request classified not cacheable has been answered by its plan   *)
(* the cache holds no entry under its key.                                 *)
(***************************************************************************)
C5_OnlyCacheableStored ==
  /\ \A w \in written : w.kind = "search" => w.cacheable
  /\ (SearchAnswered /\ reply.path = "plan" /\ ~reply.req.classification.cacheable)
     => ~L1Has(l1, reply.req.cacheKey) /\ ~L2Has(l2, reply.req.cacheKey)

(***************************************************************************)
(* C6 as stated: once a cacheable /search request has written its result   *)
(* and the TTL of that write has not run out, an arriving request with the *)
(* same key is not a miss, and it is answered cached = true with the hits  *)
(* and the total of that write.                                            *)
(***************************************************************************)
C6_HitWithinTtl ==
  [][ /\ \A p \in Procs :
           (pc[p] = "idle" /\ pc'[p] = "plan") =>
             ~\E w \in WrittenUnder(req'[p].cacheKey) : w.cacheable /\ ~w.elapsed
      /\ ( /\ nreq' = nreq + 1
           /\ reply'.path = "cache"
           /\ reply'.req.kind = "search" ) =>
             \A w \in WrittenUnder(reply'.req.cacheKey) :
               (w.cacheable /\ ~w.elapsed) =>
                 /\ reply'.body.performance.cached
                 /\ reply'.body.hits = w.hits
                 /\ reply'.body.total = w.total ]_vars

(***************************************************************************)
(* C6, amended: a /search request arriving while L1 holds an entry under   *)
(* its key is not a miss; and every /search reply served from the cache is *)
(* marked cached = true and carries exactly the hits (same order) and the  *)
(* total of the entry the cache held, which a completed request wrote      *)
(* under that key.                                                         *)
(***************************************************************************)
C6_HitWhileEntryHeld ==
  [][ /\ \A p \in Procs :
           (pc[p] = "idle" /\ pc'[p] = "plan") => ~L1Has(l1, req'[p].cacheKey)
      /\ ( /\ nreq' = nreq + 1
           /\ reply'.path = "cache"
           /\ reply'.req.kind = "search" ) =>
             LET key == reply'.req.cacheKey
                 held == IF L1Has(l1, key) THEN L1Entry(l1, key).val
                         ELSE L2Entry(l2, key).val
             IN /\ reply'.body.performance.cached
                /\ reply'.body.hits = held.hits
                /\ reply'.body.total = held.total
                /\ \E w \in WrittenUnder(key) : <<held.hits, held.total>> \in w.versions ]_vars

(* An identical cacheable request is answered from the cache within the    *)
(* TTL of the write, with the hits that were written.                      *)
C6_Witness ==
  /\ SearchAnswered /\ reply.path = "cache"
  /\ reply.req.classification.cacheable
  /\ reply.body.performance.cached
  /\ \E w \in WrittenUnder(reply.req.cacheKey) :
       ~w.elapsed /\ w.hits = reply.body.hits /\ Len(w.hits) > 1

(***************************************************************************)
(* C7: once the deadline of a /search request has fired, the request is    *)
(* in the fallback, and its reply has status 200 and a fallback body with  *)
(* partial = true and no error envelope, whether the degraded search       *)
(* answered or threw.                                                      *)
(***************************************************************************)
C7_DeadlineNeverAnError ==
  /\ \A p \in InFlight : req[p].deadlineFired => pc[p] = "fallback"
  /\ (Answered /\ reply.req.deadlineFired) =>
       /\ reply.status = 200
       /\ reply.path \in {"degraded", "empty"}
       /\ reply.body.performance.partial
       /\ reply.body.error = "none"

(* The deadline fired during the second call of a hybrid plan and the      *)
(* degraded search threw.                                                  *)
C7_Witness ==
  /\ Answered /\ reply.req.deadlineFired
  /\ reply.path = "empty"
  /\ reply.req.complexResult # Undef

(***************************************************************************)
(* C8: when the deadline fired and the degraded search failed, the reply   *)
(* has no hits, total.relation = gte, performance.engine = "fallback" and  *)
(* performance.partial = true.                                             *)
(***************************************************************************)
C8_FailedFallbackBody ==
  (Answered /\ reply.req.deadlineFired /\ reply.path = "empty") =>
    /\ reply.body.hits = <<>>
    /\ reply.body.total.relation = "gte"
    /\ reply.body.performance.engine = "fallback"
    /\ reply.body.performance.partial

(***************************************************************************)
(* C9: in every /search reply produced by a plan or by the fallback,       *)
(* total.relation is gte exactly when the reply is partial or the hybrid   *)
(* merge cut its hit list, and eq otherwise.                               *)
(***************************************************************************)
C9_GteIffPartialOrLowerBound ==
  (SearchAnswered /\ reply.path \in {"plan", "degraded", "empty"}) =>
    /\ reply.body.total.relation \in {"eq", "gte"}
    /\ reply.body.total.relation = "gte"
         <=> (reply.body.performance.partial \/ reply.lowerBound)

(***************************************************************************)
(* C10: in every /search reply, performance.partial is true exactly when   *)
(* the reply comes from the fallback after the deadline fired; replies of  *)
(* a completed plan and replies from the cache have partial = false.       *)
(***************************************************************************)
C10_PartialIffDeadlineFallback ==
  (SearchAnswered /\ reply.path \in {"cache", "plan", "degraded", "empty", "error"}) =>
    reply.body.performance.partial
      <=> (reply.path \in {"degraded", "empty"} /\ reply.req.deadlineFired)

(***************************************************************************)
(* Helpers of the claims on plans and paging.                              *)
(***************************************************************************)
SetOf(seq) == {seq[i] : i \in 1..Len(seq)}

(* the request without page.cursor *)
WithoutCursor(request) ==
  LET page == Get(request, RouterText.page)
  IN IF IsObj(page)
     THEN Obj(Assign(request.o, RouterText.page,
                     Obj(SelectSeq(page.o, LAMBDA kv : kv[1] # SimpleEngineText.cursor))))
     ELSE request

(* What the plan of request record r returns for a request, the engines    *)
(* matching what they matched for r (r.matched, r.passed).                 *)
PlanResponse(r, request) ==
  LET type == r.classification.type
      complexResult == transformOpenSearchResponse(r.matched, HybridComplexRequest(request))
      simpleResult ==
        transformTypesenseResponse(FilterByIdsResult(r.passed, request), request)
  IN IF type = "simple"
     THEN transformTypesenseResponse(TypesenseResult(r.matched, request), request)
     ELSE IF type = "complex" THEN transformOpenSearchResponse(r.matched, request)
     ELSE IF r.simpleFiltering
     THEN mergeHybridResults(complexResult, simpleResult, PageSizeOf(request))
     ELSE complexResult

(* The result list of the plan of r: what the engine matched, and for a    *)
(* hybrid plan with simple filtering without the candidates that           *)
(* filterByIds did not admit.                                              *)
PlanList(r) ==
  IF r.classification.type = "hybrid" /\ r.simpleFiltering
  THEN SelectSeq(r.matched, LAMBDA d :
         d \in SetOf(r.passed) \/ d \notin SetOf(r.complexResult.hits))
  ELSE r.matched

(* the request carries a page.cursor that does not decode *)
HasUndecodableCursor(r) ==
  /\ r.valid
  /\ Truthy(CursorOf(r.body))
  /\ ~DecodeCursor(CursorOf(r.body).s).ok

(***************************************************************************)
(* C11: no handler is still waiting for the degraded search of the         *)
(* fallback once the 200 ms granted to that search have passed: the reply  *)
(* leaves no later than 200 ms after the fallback began.                   *)
(***************************************************************************)
C11_NoHandlerWaitsPastDegradedBudget ==
  \A p \in Procs : pc[p] = "fallback" => ~req[p].overdue

C13_CursorYieldsNextWindow ==
  (SearchAnswered /\ reply.path = "plan" /\ Truthy(CursorOf(reply.req.authorized))) =>
    LET r == reply.req
        first == PlanResponse(r, WithoutCursor(r.authorized))
        both == first.hits \o reply.body.hits
    IN first.page.cursor = CursorOf(r.authorized) =>
         /\ both = FirstN(PlanList(r), Len(both))
         /\ reply.body.hits = <<>> => Len(both) = Len(PlanList(r))

(***************************************************************************)
(* C14: a /search request whose page.cursor cannot be decoded is answered  *)
(* 400 and reaches no engine.                                              *)
(***************************************************************************)
C14_UndecodableCursorRejected ==
  /\ \A p \in InFlight : ~HasUndecodableCursor(req[p])
  /\ (Answered /\ reply.req.kind = "search" /\ HasUndecodableCursor(reply.req)) =>
       reply.status = 400

(***************************************************************************)
(* C15: a step that answers an /explain request, with an explanation or    *)
(* with an error, leaves L1 and L2 as they were, writes nothing to the     *)
(* cache and starts no engine call.                                        *)
(***************************************************************************)
C15_ExplainTouchesNoCacheNoEngine ==
  [][ (reply'.req.kind = "explain" /\ nreq' = nreq + 1) =>
        (l1' = l1 /\ l2' = l2 /\ written' = written /\ pc' = pc) ]_vars

(* An explanation was given for a query whose result L1 holds. *)
C15_Witness ==
  /\ reply.path = "explain" /\ reply.status = 200
  /\ L1Has(l1, reply.body.cache_strategy.key)

(***************************************************************************)
(* C16: the cache_strategy.key of an explanation is the key under which    *)
(* /search looks up and stores the same body sent by the same tenant.      *)
(***************************************************************************)
C16_ExplainKeyIsSearchKey ==
  (Answered /\ reply.path = "explain" /\ reply.status = 200) =>
    \A s \in SearchRequests :
      (s.ok /\ s.tenant = reply.req.tenant /\ s.sent = reply.req.sent) =>
        s.cacheKey = reply.body.cache_strategy.key

(***************************************************************************)
(* C17: a /search request without X-Tenant-ID is answered 400 with the     *)
(* code MISSING_TENANT_ID.                                                 *)
(***************************************************************************)
C17_MissingTenantIs400 ==
  (Answered /\ reply.req.kind = "search" /\ reply.req.valid /\ reply.req.auth
     /\ reply.req.tenant = <<>>) =>
    /\ reply.status = 400
    /\ reply.body.code = "MISSING_TENANT_ID"

(***************************************************************************)
(* C18: a request that carries X-Tenant-ID and a valid body is handled     *)
(* whether or not it carries an Authorization header: the handler does not *)
(* refuse it for the missing header.                                       *)
(***************************************************************************)
C18_AuthorizationOptional ==
  (Answered /\ reply.req.valid /\ reply.req.tenant # <<>> /\ ~reply.req.auth) =>
    /\ reply.path # "unhandled"
    /\ reply.status # 500

(***************************************************************************)
(* C19: when an engine call of the plan failed and the deadline had not    *)
(* fired, the reply has status 500 and the error envelope: no hits, engine *)
(* "error", partial false.                                                 *)
(***************************************************************************)
C19_EngineFailureIsErrorEnvelope ==
  (SearchAnswered /\ ~reply.req.deadlineFired
     /\ reply.path \in {"error", "degraded", "empty"}) =>
    /\ reply.status = 500
    /\ reply.body = ErrorEnvelope(PageSizeOf(reply.req.authorized))
    /\ reply.body.hits = <<>>
    /\ reply.body.performance.engine = "error"
    /\ ~reply.body.performance.partial

(***************************************************************************)
(* C20: a request during which an L2 operation threw is answered as it is  *)
(* with L2 disabled: the faulting read is a miss, the plan runs, and the   *)
(* status and the hits are those of the plan (200 and what the engines     *)
(* returned) or of the fallback; a 500 comes from an engine only.          *)
(***************************************************************************)
C20_L2FaultAnsweredAsWithoutL2 ==
  (Answered /\ reply.req.l2Fault) =>
    /\ reply.path \in {"plan", "degraded", "empty", "error"}
    /\ reply.status = 500 <=> reply.path = "error"
    /\ (reply.path = "plan" /\ reply.req.kind = "search") =>
         reply.body.hits = PlanResponse(reply.req, reply.req.authorized).hits

(* The read of L2 threw for a key that L2 held, and the plan answered. *)
C20_Witness ==
  /\ Answered /\ reply.req.l2Fault /\ reply.req.kind = "search"
  /\ reply.path = "plan" /\ reply.status = 200
  /\ reply.body.hits # <<>>
  /\ nreq = 2

(***************************************************************************)
(* C21: no reply is served from the cache under a key once the TTL given   *)
(* to the latest set of that key has run out since that set, whichever     *)
(* tier held the value and whatever gets came in between.                  *)
(***************************************************************************)
C21_NoHitPastTtl ==
  (Answered /\ reply.path = "cache") =>
    \A w \in WrittenUnder(reply.req.cacheKey) : ~w.elapsed

(* An /explain request that reached the classifier was answered; the       *)
(* request the classifier saw.                                             *)
Explained == Answered /\ reply.req.kind = "explain" /\ reply.req.ok
Classified == Explained /\ reply.status = 200
ExplainedRequest == WithTenant(reply.req.body, reply.req.tenant)

(***************************************************************************)
(* C22: the classification says cacheable = false exactly when a filter    *)
(* whose name contains "date" has a range value (an object with gte, lte,  *)
(* gt or lt), or the query text is longer than 50 characters, or the page  *)
(* size is above 50.                                                       *)
(***************************************************************************)
C22_CacheableUnlessDateRangeLongTextLargePage ==
  Classified =>
    LET filters == FiltersOf(ExplainedRequest)
        q == Get(ExplainedRequest, RouterText.q)
        dateRange ==
          \E i \in 1..Len(filters.o) :
            Includes(filters.o[i][1], ClassifierText.date) /\ IsRangeFilter(filters.o[i][2])
        longText == q.t = "str" /\ Len(q.s) > 50
        largePage == PageSizeOf(ExplainedRequest) > 50
    IN reply.body.cache_strategy.cacheable = ~(dateRange \/ longText \/ largePage)

(***************************************************************************)
(* C23: a request whose page size is above 50 is classified complex and    *)
(* not cacheable, whatever its text, filters and options.                  *)
(***************************************************************************)
C23_LargePageIsComplexUncacheable ==
  (Classified /\ PageSizeOf(ExplainedRequest) > 50) =>
    /\ reply.body.classification = "complex"
    /\ ~reply.body.cache_strategy.cacheable

(***************************************************************************)
(* C24: classify returns a classification for every body the schema        *)
(* accepts, whatever the shape of its sort entries and filter values, and  *)
(* equal requests get equal classifications.                               *)
(***************************************************************************)
C24_ClassifyTotalDeterministic ==
  Explained =>
    /\ reply.status = 200
    /\ reply.body.classification \in {"simple", "hybrid", "complex"}
    /\ \A r \in ExplainRequestsBy[clients] :
         (r.ok /\ r.tenant = reply.req.tenant /\ r.sent = reply.req.sent) =>
           r.explanation = reply.body

(***************************************************************************)
(* C25: the expected latency of an explanation is                          *)
(* base[type] x (1 + complexity_score / 20) with base 50 for simple, 150   *)
(* for hybrid and 200 for complex, which is the estimated latency of the   *)
(* classification.  Latencies are compared in hundredths of a millisecond, *)
(* the score being in tenths.                                              *)
(***************************************************************************)
C25_ExpectedLatencyIsClassifierEstimate ==
  Classified =>
    LET type == reply.body.classification
        base == CASE type = "simple" -> 50 [] type = "hybrid" -> 150 [] OTHER -> 200
        score == reply.body.estimated_cost.complexity_score
    IN /\ 2 * reply.body.estimated_cost.expected_latency_ms = base * (200 + score)
       /\ reply.body.estimated_cost.expected_latency_ms
            = 100 * classify(ExplainedRequest).estimatedLatency

(***************************************************************************)
(* C30: the type of a classification follows the five rules in order:      *)
(* simple when the score is at most 3 with no text, at most 2 filters and  *)
(* no highlight or suggest; else complex when the score is at least 7;     *)
(* else complex when a feature requires the complex engine; else hybrid    *)
(* when text and a filter are both present; else simple when the score is  *)
(* at most 5 and complex otherwise.  A request with highlight or suggest   *)
(* is never simple or hybrid.                                              *)
(***************************************************************************)
C30_TypeByTheFiveRules ==
  Classified =>
    LET request == ExplainedRequest
        score == reply.body.estimated_cost.complexity_score
        text == HasFullText(request)
        filterCount == Len(Keys(FiltersOf(request)))
        features == OptionOf(request, ClassifierText.highlight)
                      \/ OptionOf(request, ClassifierText.suggest)
        type == reply.body.classification
        rule1 == score <= 30 /\ ~text /\ filterCount <= 2 /\ ~features
        rule2 == score >= 70
        rule3 == requiresComplexEngine(request)
        rule4 == text /\ filterCount >= 1
    IN /\ rule1 => type = "simple"
       /\ (~rule1 /\ rule2) => type = "complex"
       /\ (~rule1 /\ ~rule2 /\ rule3) => type = "complex"
       /\ (~rule1 /\ ~rule2 /\ ~rule3 /\ rule4) => type = "hybrid"
       /\ (~rule1 /\ ~rule2 /\ ~rule3 /\ ~rule4) =>
            type = (IF score <= 50 THEN "simple" ELSE "complex")
       /\ features => type = "complex"

(* A request with text, a filter and highlight, its score below 7, was     *)
(* classified complex by the third rule.                                   *)
C30_Witness ==
  /\ Classified
  /\ OptionOf(ExplainedRequest, ClassifierText.highlight)
  /\ HasFullText(ExplainedRequest)
  /\ Len(Keys(FiltersOf(ExplainedRequest))) >= 1
  /\ reply.body.estimated_cost.complexity_score < 70
  /\ reply.body.classification = "complex"

C27_NoPlanCallAfterDeadline ==
  /\ \A p \in InFlight : req[p].deadlineFired => req[p].abandoned = "none"
  /\ Answered => (reply.req.deadlineFired => reply.req.abandoned = "none")

(***************************************************************************)
(* C28: the steps of a /search request run in the order tenant,            *)
(* authorization, fingerprint, cache lookup, classification, dispatch, so  *)
(* that authorization has run on every request answered from the cache.    *)
(***************************************************************************)
C28_AuthorizedBeforeCacheLookup ==
  LET order == <<"tenant", "authorize", "fingerprint", "lookup", "classify", "dispatch">>
      InOrder(steps) == Len(steps) <= Len(order) /\ steps = SubSeq(order, 1, Len(steps))
      Authorized(steps) == \E i \in 1..Len(steps) : steps[i] = "authorize"
  IN /\ \A p \in InFlight : req[p].kind = "search" => InOrder(req[p].steps)
     /\ SearchAnswered =>
          /\ InOrder(reply.req.steps)
          /\ reply.path = "cache" => Authorized(reply.req.steps)

(***************************************************************************)
(* C29: a get asks L1 first and on an L1 hit returns its value without     *)
(* touching L2; on an L1 miss with L2 enabled it reads L2, and an L2 hit   *)
(* is stored in L1 and returned, so that the next get of the key is an L1  *)
(* hit; an L2 read that throws is counted in stats.errors and the get      *)
(* returns a miss.                                                         *)
(***************************************************************************)
C29_GetL1ThenL2 ==
  [][ reply'.path = "get" =>
        LET key == reply'.req.cacheKey
            got == reply'.body
            l2Read == got.stats.l2Hits + got.stats.l2Misses + got.stats.errors
        IN /\ l2' = l2
           /\ L1Has(l1, key) =>
                /\ got.hit /\ got.val = L1Entry(l1, key).val
                /\ got.stats.l1Hits = 1 /\ l2Read = 0
           /\ ~L1Has(l1, key) =>
                /\ got.stats.l1Hits = 0
                /\ l2Read = (IF l2Enabled THEN 1 ELSE 0)
                /\ reply'.req.l2Fault => (~got.hit /\ got.stats.errors = 1)
                /\ ~reply'.req.l2Fault => got.stats.errors = 0
                /\ (l2Enabled /\ ~reply'.req.l2Fault /\ L2Has(l2, key)) =>
                     /\ got.hit /\ got.val = L2Entry(l2, key).val
                     /\ L1Has(l1', key) /\ L1Entry(l1', key).val = got.val
                     /\ \A l2ok \in BOOLEAN :
                          cacheGet(l1', l2', l2Enabled, key, l2ok).stats.l1Hits = 1
                /\ (~l2Enabled \/ ~L2Has(l2, key)) => ~got.hit ]_vars

(* A get missed L1, found the value in L2 and left it in L1. *)
C29_Witness ==
  /\ reply.path = "get" /\ reply.body.hit
  /\ reply.body.stats.l2Hits = 1
  /\ L1Has(l1, reply.req.cacheKey)


(***************************************************************************)
(* Concurrent misses on one key.                                           *)
(***************************************************************************)
(* What a tier holds under the key of a history record is what the latest  *)
(* write under that key stored.                                            *)
HoldLastWrite(w) ==
  /\ L1Has(l1, w.key) =>
       (L1Entry(l1, w.key).val.hits = w.hits /\ L1Entry(l1, w.key).val.total = w.total)
  /\ L2Has(l2, w.key) =>
       (L2Entry(l2, w.key).val.hits = w.hits /\ L2Entry(l2, w.key).val.total = w.total)

(* The /search keys written by handlers that had missed concurrently, no   *)
(* handler being on its way with the key any more.                         *)
RacedAndDone ==
  {w \in written :
     /\ w.kind = "search" /\ w.raced
     /\ \A q \in Procs : pc[q] # "idle" => req[q].cacheKey # w.key}

MaxRetryAttempts == 3

DefaultRetryAttempts == 3

(* config.retryAttempts as the caller may give it; 0 also stands for a     *)
(* config without the field (both are falsy).                              *)
RetryConfigs == 0 .. MaxRetryAttempts

(* this.retryAttempts = config.retryAttempts || 3 *)
retryAttemptsOf(config) == IF config = 0 THEN DefaultRetryAttempts ELSE config

(* What one fetch can come to: a 2xx response whose body parses, a 2xx     *)
(* response whose body is no JSON, a non-2xx response, a rejected fetch.   *)
FetchOutcomes ==
  { [settled |-> "response", ok |-> TRUE, status |-> 200, text |-> "{hits}", json |-> TRUE],
    [settled |-> "response", ok |-> TRUE, status |-> 200, text |-> "<html>", json |-> FALSE],
    [settled |-> "response", ok |-> FALSE, status |-> 503, text |-> "unavailable", json |-> FALSE],
    [settled |-> "rejected", ok |-> FALSE, status |-> 0, text |-> "", json |-> FALSE] }

(* The attempt runs to `return await response.json()`. *)
AttemptSucceeds(outcome) == outcome.ok /\ outcome.json

(* The error the try block throws on an outcome that does not succeed. *)
AttemptError(outcome) ==
  CASE outcome.settled = "rejected" -> [name |-> "TypeError", message |-> <<"fetch failed">>]
    [] ~outcome.ok -> [name |-> "Error",
                       message |-> <<"Search API error (", outcome.status, "): ", outcome.text>>]
    [] OTHER -> [name |-> "SyntaxError", message |-> <<"Unexpected token">>]

(* the catch block keeping the first error caught *)
catchKeepsFirstError(call, error) ==
  [call |-> [call EXCEPT !.lastError = IF call.lastError = Undef THEN error ELSE @],
   next |-> IF call.attempt = call.retryAttempts THEN "throw" ELSE "backoff"]

(* The catch block: remember the error; break on the last attempt, else    *)
(* sleep.                                                                  *)
catch(call, error) ==
  [call |-> [call EXCEPT !.lastError = error],
   next |-> IF call.attempt = call.retryAttempts THEN "throw" ELSE "backoff"]

ClientCall(config) ==
  [kind |-> "client", config |-> config, retryAttempts |-> retryAttemptsOf(config),
   attempt |-> 1, lastError |-> Undef, tried |-> <<>>, waited |-> <<>>, cacheKey |-> ""]

(* `throw lastError!` after the loop. *)
Throw(p, call) == Return(p, call, 0, call.lastError, "threw", FALSE)

(* makeRequest up to the first fetch. *)
makeRequest(p) ==
  /\ CanStart(p) /\ nreq < MaxRequests
  /\ \E config \in RetryConfigs :
       LET call == ClientCall(config)
       IN IF call.attempt <= call.retryAttempts
            THEN /\ pc' = [pc EXCEPT ![p] = "fetching"]
                 /\ req' = [req EXCEPT ![p] = call]
                 /\ UNCHANGED reply
            ELSE Throw(p, call)
  /\ nreq' = nreq + 1
  /\ UNCHANGED <<l1, l2, l2Enabled, written, probeKeys, clients, lastHealthCheck>>

(* The awaited fetch settles: the try block and, when it throws, the catch *)
(* block up to the sleep.                                                  *)
FetchSettles(p) ==
  /\ pc[p] = "fetching"
  /\ \E outcome \in FetchOutcomes :
       LET call == [req[p] EXCEPT !.tried = Append(@, outcome)]
           caught(c) ==
             IF c.next = "throw"
               THEN Throw(p, c.call)
               ELSE /\ pc' = [pc EXCEPT ![p] = "backoff"]
                    /\ req' = [req EXCEPT ![p] = c.call]
                    /\ UNCHANGED reply
       IN IF AttemptSucceeds(outcome)
            THEN Return(p, call, outcome.status, outcome.text, "returned", FALSE)
            ELSE caught(catch(call, AttemptError(outcome)))
  /\ UNCHANGED <<l1, l2, l2Enabled, written, probeKeys, nreq, clients, lastHealthCheck>>

(* The backoff timer fires: attempt++ and the loop's test. *)
BackoffElapses(p) ==
  /\ pc[p] = "backoff"
  /\ LET call == [req[p] EXCEPT !.waited = Append(@, (2 ^ req[p].attempt) * 1000),
                                !.attempt = @ + 1]
     IN IF call.attempt <= call.retryAttempts
          THEN /\ pc' = [pc EXCEPT ![p] = "fetching"]
               /\ req' = [req EXCEPT ![p] = call]
               /\ UNCHANGED reply
          ELSE Throw(p, call)
  /\ UNCHANGED <<l1, l2, l2Enabled, written, probeKeys, nreq, clients, lastHealthCheck>>

ClientNext ==
  \/ \E p \in Procs : makeRequest(p)
  \/ \E p \in Procs : FetchSettles(p)
  \/ \E p \in Procs : BackoffElapses(p)

ClientSpec == InitOf("client") /\ [][ClientNext]_vars

(* The waits slept after the first n failed attempts: 2^attempt seconds. *)
BackoffsAfter(n) == [attempt \in 1 .. n |-> (2 ^ attempt) * 1000]

AllFailed(tried, n) == \A i \in 1 .. n : ~AttemptSucceeds(tried[i])

(***************************************************************************)
(* C32: SearchClient.makeRequest ends after at most retryAttempts HTTP     *)
(* attempts: it returns the body of the first attempt that succeeds, has   *)
(* waited 2^attempt seconds after each failed attempt but the last one,    *)
(* and when every attempt failed it throws the error of the last attempt.  *)
(***************************************************************************)
C32_RetryLoop ==
  /\ \A p \in Procs :
       pc[p] \in {"fetching", "backoff"} =>
         LET call == req[p]
             n == Len(call.tried)
         IN /\ n < call.retryAttempts
            /\ AllFailed(call.tried, n)
            /\ call.waited = BackoffsAfter(IF pc[p] = "backoff" THEN n - 1 ELSE n)
  /\ reply.path \in {"returned", "threw"} =>
       LET call == reply.req
           n == Len(call.tried)
       IN /\ n \in 1 .. call.retryAttempts
          /\ AllFailed(call.tried, n - 1)
          /\ call.waited = BackoffsAfter(n - 1)
          /\ IF reply.path = "returned"
               THEN AttemptSucceeds(call.tried[n]) /\ reply.body = call.tried[n].text
               ELSE /\ n = call.retryAttempts
                    /\ ~AttemptSucceeds(call.tried[n])
                    /\ reply.body = AttemptError(call.tried[n])

(* Three attempts failed in three different ways, the call slept 2 s and   *)
(* 4 s and threw the third error.                                          *)
C32_Witness ==
  /\ reply.path = "threw"
  /\ Len(reply.req.tried) = 3
  /\ reply.req.waited = <<2000, 4000>>
  /\ reply.req.tried[1].settled = "rejected"
  /\ reply.req.tried[2].status = 503
  /\ reply.req.tried[3].status = 200
  /\ reply.body.name = "SyntaxError"

(***************************************************************************)
(* C33: a partial (fallback) result is never written to the cache: the     *)
(* steps of a /search handler from the firing of its deadline to its reply *)
(* leave both tiers and the write history as they were, and no reply       *)
(* served from the cache is marked partial.                                *)
(***************************************************************************)
C33_PartialNeverCached ==
  [][ /\ \A p \in Procs :
           (/\ pc'[p] = "fallback" \/ pc[p] = "fallback"
            /\ pc'[p] # pc[p] \/ req'[p] # req[p])
             => l1' = l1 /\ l2' = l2 /\ written' = written
      /\ (reply'.path = "cache" /\ reply'.req.kind = "search")
           => reply'.body.performance.partial # TRUE ]_vars

(* The deadline of a request fired, the handler answered with    *)
(* the partial result of the degraded search, and neither tier holds the   *)
(* key, which no handler has written.                                      *)
C33_Witness ==
  /\ reply.path = "degraded"
  /\ reply.req.deadlineFired
  /\ reply.body.performance.partial = TRUE
  /\ reply.body.hits # <<>>
  /\ l2Enabled
  /\ ~L1Has(l1, reply.req.cacheKey) /\ ~L2Has(l2, reply.req.cacheKey)
  /\ WrittenUnder(reply.req.cacheKey) = {}

(***************************************************************************)
(* C34: a /search response computed by a plan holds at most page.size hits *)
(* (20 when the request gives no size), whichever of the three plans ran.  *)
(***************************************************************************)
C34_AtMostPageSize ==
  (reply.req.kind = "search" /\ reply.path = "plan" /\ reply.status = 200)
    => Len(reply.body.hits) <= PageSizeOf(reply.req.authorized)

(***************************************************************************)
(* C35: when the simple engine fails while serving /suggest, the step that *)
(* answers the request writes nothing to the cache: both tiers stay as     *)
(* they were.                                                              *)
(***************************************************************************)
C35_FailedSuggestNotCached ==
  [][ \A p \in Procs :
        (pc[p] = "suggest" /\ pc'[p] = "idle" /\ reply'.req.engineFailed)
          => l1' = l1 /\ l2' = l2 ]_vars

(***************************************************************************)
(* C36: after a /search miss has written its result, the entry L1 holds    *)
(* and the entry L2 holds under the key describe the same response: same   *)
(* hits, total, performance.engine and debug.  Stated of the keys written  *)
(* once, by a write that reached L2.                                       *)
(***************************************************************************)
C36_TiersHoldSameResponse ==
  \A w \in written :
    (/\ w.kind = "search" /\ w.l2 /\ ~w.raced /\ Cardinality(w.versions) = 1
     /\ L1Has(l1, w.key) /\ L2Has(l2, w.key))
      => LET inL1 == L1Entry(l1, w.key).val
             inL2 == L2Entry(l2, w.key).val
         IN /\ inL1.hits = inL2.hits
            /\ inL1.total = inL2.total
            /\ inL1.performance.engine = inL2.performance.engine
            /\ inL1.debug = inL2.debug

(***************************************************************************)
(* C39: whenever the simple-engine probe and the complex-engine probe of   *)
(* the latest health check are both unhealthy, isReady is false, whatever  *)
(* the cache probe reported.                                               *)
(***************************************************************************)
C39_NotReadyWithoutEngines ==
  (/\ lastHealthCheck.status # "none"
   /\ lastHealthCheck.services.simple_engine = "unhealthy"
   /\ lastHealthCheck.services.complex_engine = "unhealthy")
    => ~isReady(lastHealthCheck)

(***************************************************************************)
(* Options and the cache key: the clients send one query with and without  *)
(* options.highlight; their plans answer, and L1 entries run out so that   *)
(* hits are served from either tier.                                       *)
(***************************************************************************)
OptionsNext ==
  \/ \E p \in Procs : SearchStart(p)
  \/ \E p \in Procs : PlanReturn(p)
  \/ TtlElapse
  \/ L1Expire

OptionsSpec == InitOf("options") /\ [][OptionsNext]_vars

(***************************************************************************)
(* C37: a /search response served from the cache is one the request could  *)
(* have produced on a miss: the plan that computed it is the plan of the   *)
(* request's own classification, so that a request with options.highlight  *)
(* is never served the cached response of a request without it.            *)
(***************************************************************************)
C37_HitIsOfOwnPlan ==
  (reply.path = "cache" /\ reply.req.kind = "search")
    => reply.body.performance.engine = reply.req.classification.type

(***************************************************************************)
(* CacheService with its calls interleaved, L2 healthy: a get is the L1    *)
(* lookup, the GET Redis executes, and the continuation that fills L1; a   *)
(* delete is the L1 delete and the DEL Redis executes.  Here written holds *)
(* the keys whose delete has completed with no set since it started.       *)
(***************************************************************************)
MaxCacheCalls == 3

Deleted(key) == [key |-> key, kind |-> "deleted"]

CacheCall(kind, key) ==
  [cacheKey |-> key, fetched |-> Undef, setSince |-> FALSE]
  @@ RequestBase(kind, <<>>, FALSE, Undef)

(* CacheService.set from call to return. *)
SetCompletes ==
  \E n \in 1..MaxCacheKeys :
    LET key == healthTestKey(n)
        stored == cacheSet(l1, l2, l2Enabled, key, [test |-> TRUE], TRUE)
    IN /\ l1' = stored.l1
       /\ l2' = stored.l2
       /\ written' = written \ {Deleted(key)}
       /\ req' = [p \in Procs |->
                    IF pc[p] = "l2del" /\ req[p].cacheKey = key
                    THEN [req[p] EXCEPT !.setSince = TRUE] ELSE req[p]]
       /\ reply' = NoReply
       /\ UNCHANGED <<pc, l2Enabled, probeKeys, nreq, clients, lastHealthCheck>>

(* get up to `await this.l2Cache.get(key)`. *)
GetStart(p) ==
  /\ CanStart(p) /\ nreq < MaxCacheCalls
  /\ \E n \in 1..MaxCacheKeys :
       LET r == CacheCall("get", healthTestKey(n))
           g == L1Get(l1, r.cacheKey)
       IN /\ l1' = g.l1
          /\ IF g.hit
               THEN Return(p, r, 0, [hit |-> TRUE, val |-> g.val], "get", FALSE)
             ELSE IF ~l2Enabled
               THEN Return(p, r, 0, [hit |-> FALSE, val |-> Undef], "get", FALSE)
             ELSE /\ pc' = [pc EXCEPT ![p] = "l2get"]
                  /\ req' = [req EXCEPT ![p] = r]
                  /\ reply' = NoReply
  /\ nreq' = nreq + 1
  /\ UNCHANGED <<l2, l2Enabled, written, probeKeys, clients, lastHealthCheck>>

(* Redis executes the GET. *)
GetL2Read(p) ==
  /\ pc[p] = "l2get"
  /\ pc' = [pc EXCEPT ![p] = "l2got"]
  /\ req' = [req EXCEPT ![p].fetched =
               IF L2Has(l2, req[p].cacheKey) THEN L2Entry(l2, req[p].cacheKey).val ELSE Null]
  /\ reply' = NoReply
  /\ UNCHANGED <<l1, l2, l2Enabled, written, probeKeys, nreq, clients, lastHealthCheck>>

(* The awaited GET resolves: a value is parsed, set in L1 and returned. *)
GetSettles(p) ==
  /\ pc[p] = "l2got"
  /\ LET r == req[p]
     IN IF r.fetched # Null
          THEN /\ l1' = L1Set(l1, r.cacheKey, r.fetched, "filled")
               /\ Return(p, r, 0, [hit |-> TRUE, val |-> r.fetched], "get", FALSE)
          ELSE /\ l1' = l1
               /\ Return(p, r, 0, [hit |-> FALSE, val |-> Undef], "get", FALSE)
  /\ UNCHANGED <<l2, l2Enabled, written, probeKeys, nreq, clients, lastHealthCheck>>

(* delete up to `await this.l2Cache.del(key)`. *)
DeleteStart(p) ==
  /\ CanStart(p) /\ nreq < MaxCacheCalls
  /\ \E n \in 1..MaxCacheKeys :
       LET r == CacheCall("delete", healthTestKey(n))
       IN /\ l1' = L1Without(l1, r.cacheKey)
          /\ IF l2Enabled
               THEN /\ pc' = [pc EXCEPT ![p] = "l2del"]
                    /\ req' = [req EXCEPT ![p] = r]
                    /\ reply' = NoReply
                    /\ written' = written
               ELSE /\ Return(p, r, 0, Undef, "delete", FALSE)
                    /\ written' = written \cup {Deleted(r.cacheKey)}
  /\ nreq' = nreq + 1
  /\ UNCHANGED <<l2, l2Enabled, probeKeys, clients, lastHealthCheck>>

(* Redis executes the DEL and the delete returns. *)
DeleteSettles(p) ==
  /\ pc[p] = "l2del"
  /\ l2' = L2Without(l2, req[p].cacheKey)
  /\ written' = IF req[p].setSince THEN written
                ELSE written \cup {Deleted(req[p].cacheKey)}
  /\ Return(p, req[p], 0, Undef, "delete", FALSE)
  /\ UNCHANGED <<l1, l2Enabled, probeKeys, nreq, clients, lastHealthCheck>>

DeleteNext ==
  \/ SetCompletes
  \/ \E p \in Procs : GetStart(p)
  \/ \E p \in Procs : GetL2Read(p)
  \/ \E p \in Procs : GetSettles(p)
  \/ \E p \in Procs : DeleteStart(p)
  \/ \E p \in Procs : DeleteSettles(p)

DeleteSpec == InitOf("cache") /\ [][DeleteNext]_vars

(***************************************************************************)
(* C38: with L2 enabled and healthy, once a delete of a key has completed  *)
(* and no set of the key has followed its start, every get of the key that *)
(* completes returns a miss, however the delete interleaved with the gets  *)
(* that started before it.                                                 *)
(***************************************************************************)
C38_MissAfterDelete ==
  (l2Enabled /\ reply.path = "get" /\ Deleted(reply.req.cacheKey) \in written)
    => ~reply.body.hit

====
